---------------------------- MODULE Spec2Model ----------------------------
(***************************************************************************)
(* The file/folder tree of backend/routes/files.js over the mongoose       *)
(* models File (backend/models/File.js), StorageStats                      *)
(* (backend/models/StorageStats.js) and Activity: one action per route     *)
(* handler, the TTL index of File as a background sweep, and a clock.      *)
(* Spec runs every handler to completion in one step (requests served one  *)
(* after the other); SpecConc lets the handlers of move and upload         *)
(* interleave at their awaits.  A handler is an operator from the          *)
(* persisted state, the time and the request to the new persisted state    *)
(* and the response; the action of a route applies it.                     *)
(***************************************************************************)
EXTENDS Integers, Sequences, FiniteSets, TLC

(***************************************************************************)
(* Bounds of the model.                                                    *)
(***************************************************************************)
MaxNodes == 3      \* File documents ever created
MaxLifeNodes == 2  \* File documents ever created under Spec
MaxTicks == 1      \* clock advances
MaxBatch == 2      \* files of one upload-multiple request
MaxReqs == 2       \* requests served concurrently (SpecConc)

(***************************************************************************)
(* Program constants.  Sizes and the storage limit are in model bytes:     *)
(* QuotaLimit stands for the literal 16106127360 of the upload handlers,   *)
(* and every upload size is at most the limit, as multer's 100MB fileSize  *)
(* limit guarantees for the real one.                                      *)
(***************************************************************************)
QuotaLimit == 2000
RetentionDays == 30
NULL == 0          \* null / undefined reference (parentFolder, path)
NoDate == -1       \* a Date path that was never set (undefined)
NullDate == -2     \* a Date path set to null

Users == {"u1", "u2"}
NoUser == "nobody"                      \* an email no User has
\* The files a client uploads: multer's originalname, mimetype and size.
UploadFiles ==
  {[originalname |-> <<"a">>, mimetype |-> "image/png", size |-> 1000],
   [originalname |-> <<" ", "a">>, mimetype |-> "image/png", size |-> 1000],
   [originalname |-> <<"b">>, mimetype |-> "application/msword", size |-> 1500]}
Permissions == {"view", "edit"}
Types == {"document", "image", "video", "audio", "pdf", "spreadsheet",
          "presentation", "archive", "text", "code", "folder"}
ActivityTypes == {"upload", "download", "view", "share", "rename", "move",
                  "delete", "restore", "create_folder"}

\* Names are sequences of characters; " " is white space.
NameInputs == {<< >>, <<" ">>, <<"a">>, <<" ", "a">>, <<"b">>}
CopySuffix == <<" ", "(Copy)">>

MissingId == MaxNodes + 1               \* an ObjectId no document ever has

VARIABLES
  nodes,      \* the File collection: _id -> document
  nextId,     \* the next fresh ObjectId
  blobs,      \* paths present in the uploads directory
  nextBlob,   \* the next fresh upload path
  stats,      \* the StorageStats collection: userId -> document
  now,        \* the clock, in days
  ticks,      \* clock advances so far
  reqs        \* requests served concurrently (SpecConc): handler states

vars == <<nodes, nextId, blobs, nextBlob, stats, now, ticks, reqs>>

\* The persisted state a handler reads and writes.
DB == [nodes |-> nodes, nextId |-> nextId, blobs |-> blobs,
       nextBlob |-> nextBlob, stats |-> stats]

(***************************************************************************)
(* Helpers.                                                                *)
(***************************************************************************)
RECURSIVE SumOver(_, _)
SumOver(S, f) ==
  IF S = {} THEN 0
  ELSE LET x == CHOOSE y \in S : TRUE IN f[x] + SumOver(S \ {x}, f)

\* String.prototype.trim
RECURSIVE TrimLeft(_)
TrimLeft(s) ==
  IF s = << >> THEN s
  ELSE IF Head(s) = " " THEN TrimLeft(Tail(s)) ELSE s

RECURSIVE TrimRight(_)
TrimRight(s) ==
  IF s = << >> THEN s
  ELSE IF s[Len(s)] = " " THEN TrimRight(SubSeq(s, 1, Len(s) - 1)) ELSE s

Trim(s) == TrimRight(TrimLeft(s))

getFileTypeFromMime(m) ==
  CASE m = "image/png" -> "image"
    [] m = "video/mp4" -> "video"
    [] m = "audio/mpeg" -> "audio"
    [] m = "application/pdf" -> "pdf"
    [] m = "application/zip" -> "archive"
    [] m = "text/plain" -> "text"
    [] m = "application/javascript" -> "code"
    [] OTHER -> "document"

\* The ids a request can name: every id handed out so far, and a missing one.
RequestIds == (1 .. (nextId - 1)) \cup {MissingId}
ParentInputs == RequestIds \cup {NULL}

Put(ns, id, doc) == [i \in DOMAIN ns \cup {id} |-> IF i = id THEN doc ELSE ns[i]]
Drop(ns, S) == [i \in DOMAIN ns \ S |-> ns[i]]

(***************************************************************************)
(* The File model.                                                         *)
(***************************************************************************)
\* new File({...}): the schema defaults and the trim setter of name
NewFile(name, type, size, path, userId, parentFolder, isFolder) ==
  [name |-> Trim(name), type |-> type, size |-> size, path |-> path,
   userId |-> userId, parentFolder |-> parentFolder, isFolder |-> isFolder,
   sharedWith |-> << >>, inTrash |-> FALSE, deletedAt |-> NoDate,
   permanentDeleteAt |-> NoDate, updatedAt |-> NoDate]

\* (mutant) no pre-save hook
PreSaveNothing(doc) == doc

\* fileSchema.pre('save')
PreSave(doc) ==
  IF doc.isFolder
  THEN [doc EXCEPT !.type = "folder", !.size = 0, !.path = NULL]
  ELSE doc

\* validation on save: name is required, type is one of the enum
Valid(doc) == doc.name # << >> /\ doc.type \in Types

\* doc.save(): the pre-save hook, and timestamps: true
Saved(doc, t) == [PreSave(doc) EXCEPT !.updatedAt = t]

isSharedWith(doc, userId) ==
  \E i \in 1 .. Len(doc.sharedWith) : doc.sharedWith[i].user = userId

getUserPermissions(doc, userId) ==
  IF isSharedWith(doc, userId)
  THEN LET i == CHOOSE j \in 1 .. Len(doc.sharedWith) :
                  /\ doc.sharedWith[j].user = userId
                  /\ \A k \in 1 .. (j - 1) : doc.sharedWith[k].user # userId
       IN doc.sharedWith[i].permission
  ELSE "null"

canEdit(doc, userId) ==
  \/ doc.userId = userId
  \/ getUserPermissions(doc, userId) = "edit"

(***************************************************************************)
(* The StorageStats model.                                                 *)
(***************************************************************************)
\* (mutant) the $match stage without inTrash: false
StatsMatchWithTrash(ns, userId) ==
  {i \in DOMAIN ns : ns[i].userId = userId}

\* the $match stage of both aggregations of updateUserStats
StatsMatch(ns, userId) ==
  {i \in DOMAIN ns : ns[i].userId = userId /\ ns[i].inTrash = FALSE}

\* the first aggregation: $group by type, the count of each
AggFileStats(ns, userId) ==
  [ty \in Types |-> Cardinality({i \in StatsMatch(ns, userId) : ns[i].type = ty})]

\* the second aggregation: files, folders and the sum of the sizes
AggCounts(ns, userId) ==
  LET M == StatsMatch(ns, userId)
      size == [i \in M |-> ns[i].size]
  IN [totalFiles |-> Cardinality({i \in M : ns[i].isFolder = FALSE}),
      totalFolders |-> Cardinality({i \in M : ns[i].isFolder = TRUE}),
      totalSize |-> SumOver(M, size)]

\* the update document of findOneAndUpdate
StatsDoc(fileTypeBreakdown, counts, t) ==
  [totalFiles |-> counts.totalFiles,
   totalFolders |-> counts.totalFolders,
   totalSize |-> counts.totalSize,
   usedStorage |-> counts.totalSize,
   fileTypeBreakdown |-> fileTypeBreakdown,
   lastCalculated |-> t]

\* updateUserStats, the document it upserts
ComputedStats(ns, userId, t) ==
  StatsDoc(AggFileStats(ns, userId), AggCounts(ns, userId), t)

updateUserStats(st, ns, userId, t) ==
  [u \in DOMAIN st \cup {userId} |->
     IF u = userId THEN ComputedStats(ns, userId, t) ELSE st[u]]


(***************************************************************************)
(* The Activity model: logActivity saves the event and rethrows what save  *)
(* throws: a type outside the enum fails validation, and sinkDown is a     *)
(* failure of the store.  The events themselves are read by no handler of  *)
(* the tree and are not kept.                                              *)
(***************************************************************************)
logActivityThrows(type, sinkDown) == type \notin ActivityTypes \/ sinkDown

(***************************************************************************)
(* Responses: the HTTP status and the kind of the error message.           *)
(***************************************************************************)
Out(db, status, error) == [db |-> db, status |-> status, error |-> error]

Commit(r) ==
  /\ r.db.nextId <= MaxNodes + 1
  /\ nodes' = r.db.nodes
  /\ nextId' = r.db.nextId
  /\ blobs' = r.db.blobs
  /\ nextBlob' = r.db.nextBlob
  /\ stats' = r.db.stats
  /\ UNCHANGED <<now, ticks, reqs>>

Init ==
  /\ nodes = [i \in {} |-> 0]
  /\ nextId = 1
  /\ blobs = {}
  /\ nextBlob = 1
  /\ stats = [u \in {} |-> 0]
  /\ now = 0
  /\ ticks = 0
  /\ reqs = [s \in {} |-> 0]

(***************************************************************************)
(* POST /folders                                                           *)
(***************************************************************************)
CreateFolderH(db, t, u, name, parentFolder, sinkDown) ==
  IF name = << >> \/ Trim(name) = << >>
  THEN Out(db, 400, "NameRequired")
  ELSE IF \E i \in DOMAIN db.nodes :
             /\ db.nodes[i].userId = u
             /\ db.nodes[i].name = Trim(name)
             /\ db.nodes[i].isFolder = TRUE
             /\ db.nodes[i].parentFolder = parentFolder
             /\ db.nodes[i].inTrash = FALSE
  THEN Out(db, 400, "DuplicateName")
  ELSE LET newFolder == NewFile(Trim(name), "folder", 0, NULL, u, parentFolder, TRUE)
           db1 == [db EXCEPT !.nodes = Put(@, db.nextId, Saved(newFolder, t)),
                             !.nextId = @ + 1]
       IN IF logActivityThrows("create_folder", sinkDown)
          THEN Out(db1, 500, "ServerError")
          ELSE Out(db1, 201, "none")

CreateFolder(u, name, parentFolder, sinkDown) ==
  Commit(CreateFolderH(DB, now, u, name, parentFolder, sinkDown))

(***************************************************************************)
(* POST /upload                                                            *)
(***************************************************************************)
\* File.findOne({_id, userId, isFolder: true, inTrash: false})
ParentFolderDoc(ns, u, parentFolder) ==
  /\ parentFolder \in DOMAIN ns
  /\ ns[parentFolder].userId = u
  /\ ns[parentFolder].isFolder = TRUE
  /\ ns[parentFolder].inTrash = FALSE

\* (mutant) the check forgets the storage already used
OverQuotaIgnoringUsed(st, u, size) == u \in DOMAIN st /\ size > QuotaLimit

\* storageStats && (storageStats.usedStorage + size) > 16106127360
OverQuota(st, u, size) == u \in DOMAIN st /\ st[u].usedStorage + size > QuotaLimit

\* multer has stored the upload at a fresh path before the handler runs;
\* a handler that unlinks it leaves the uploads directory as it was.
UploadH(db, t, u, file, parentFolder, statsDown, sinkDown) ==
  LET path == db.nextBlob
      newFile == NewFile(file.originalname, getFileTypeFromMime(file.mimetype),
                         file.size, path, u, parentFolder, FALSE)
  IN
  IF parentFolder # NULL /\ ~ParentFolderDoc(db.nodes, u, parentFolder)
  THEN Out(db, 400, "InvalidParent")
  ELSE IF OverQuota(db.stats, u, file.size)
  THEN Out(db, 400, "QuotaExceeded")
  ELSE IF ~Valid(newFile)
  THEN Out(db, 500, "ServerError")
  ELSE LET db1 == [db EXCEPT !.nodes = Put(@, db.nextId, Saved(newFile, t)),
                             !.nextId = @ + 1,
                             !.nextBlob = @ + 1]
           db2 == [db1 EXCEPT !.stats = updateUserStats(@, db1.nodes, u, t)]
       IN IF statsDown
          THEN Out(db1, 500, "ServerError")
          ELSE IF logActivityThrows("upload", sinkDown)
          THEN Out(db2, 500, "ServerError")
          ELSE Out([db2 EXCEPT !.blobs = @ \cup {path}], 201, "none")

Upload(u, file, parentFolder, statsDown, sinkDown) ==
  Commit(UploadH(DB, now, u, file, parentFolder, statsDown, sinkDown))

(***************************************************************************)
(* POST /upload-multiple.  sinkFailAt is the file whose logActivity call   *)
(* fails (0: none).                                                        *)
(***************************************************************************)
RECURSIVE SumSizes(_)
SumSizes(files) ==
  IF files = << >> THEN 0 ELSE Head(files).size + SumSizes(Tail(files))

UploadMultipleH(db, t, u, files, parentFolder, statsDown, sinkFailAt) ==
  LET n == Len(files)
      path(j) == db.nextBlob + j - 1
      newFile(j) == NewFile(files[j].originalname, getFileTypeFromMime(files[j].mimetype),
                            files[j].size, path(j), u, parentFolder, FALSE)
      currentUsed == IF u \in DOMAIN db.stats THEN db.stats[u].usedStorage ELSE 0
      \* the first file whose save or logActivity throws
      Bad == {j \in 1 .. n : ~Valid(newFile(j)) \/ logActivityThrows("upload", sinkFailAt = j)}
      firstBad == CHOOSE j \in Bad : \A k \in Bad : j <= k
      saved == IF Bad = {} THEN n
               ELSE IF Valid(newFile(firstBad)) THEN firstBad ELSE firstBad - 1
      db1 == [db EXCEPT
                !.nodes = [i \in DOMAIN db.nodes \cup (db.nextId .. (db.nextId + saved - 1)) |->
                             IF i \in DOMAIN db.nodes THEN db.nodes[i]
                             ELSE Saved(newFile(i - db.nextId + 1), t)],
                !.nextId = @ + saved,
                !.nextBlob = @ + n]
      db2 == [db1 EXCEPT !.stats = updateUserStats(@, db1.nodes, u, t)]
  IN
  IF n = 0
  THEN Out(db, 400, "NoFiles")
  ELSE IF parentFolder # NULL /\ ~ParentFolderDoc(db.nodes, u, parentFolder)
  THEN Out(db, 400, "InvalidParent")
  ELSE IF currentUsed + SumSizes(files) > QuotaLimit
  THEN Out(db, 400, "QuotaExceeded")
  ELSE IF Bad # {}
  THEN Out(IF saved = 0 THEN db ELSE db1, 500, "ServerError")
  ELSE IF statsDown
  THEN Out(db1, 500, "ServerError")
  ELSE Out([db2 EXCEPT !.blobs = @ \cup {path(j) : j \in 1 .. n}], 201, "none")

UploadMultiple(u, files, parentFolder, statsDown, sinkFailAt) ==
  Commit(UploadMultipleH(DB, now, u, files, parentFolder, statsDown, sinkFailAt))

(***************************************************************************)
(* PATCH /:fileId/rename                                                   *)
(***************************************************************************)
\* (mutant) a user the document is shared with for editing passes as well
OwnedOrEditor(ns, u, id) ==
  id \in DOMAIN ns /\ (ns[id].userId = u \/ canEdit(ns[id], u))

\* File.findOne({ _id: fileId, userId: req.user._id })
Owned(ns, u, id) == id \in DOMAIN ns /\ ns[id].userId = u

RenameH(db, t, u, fileId, name, sinkDown) ==
  IF name = << >> \/ Trim(name) = << >>
  THEN Out(db, 400, "NameRequired")
  ELSE IF ~Owned(db.nodes, u, fileId)
  THEN Out(db, 404, "NotFound")
  ELSE LET file == [db.nodes[fileId] EXCEPT !.name = Trim(name)]
           db1 == [db EXCEPT !.nodes = Put(@, fileId, Saved(file, t))]
       IN IF logActivityThrows("rename", sinkDown)
          THEN Out(db1, 500, "ServerError")
          ELSE Out(db1, 200, "none")

Rename(u, fileId, name, sinkDown) ==
  Commit(RenameH(DB, now, u, fileId, name, sinkDown))

(***************************************************************************)
(* POST /:fileId/move                                                      *)
(***************************************************************************)
\* The loop of checkIfSubfolder, one File.findById per round.  On a parent
\* chain that runs into a cycle not holding potentialSubfolderId the loop
\* never ends: more rounds than there are documents show it.
RECURSIVE SubfolderWalk(_, _, _, _)
SubfolderWalk(ns, currentFolderId, potentialSubfolderId, rounds) ==
  IF currentFolderId = NULL THEN "false"
  ELSE IF currentFolderId \notin DOMAIN ns THEN "false"
  ELSE IF currentFolderId = potentialSubfolderId THEN "true"
  ELSE IF rounds = 0 THEN "diverges"
  ELSE SubfolderWalk(ns, ns[currentFolderId].parentFolder, potentialSubfolderId, rounds - 1)

\* (mutant) the walk looks at the target and its parent only
checkIfSubfolderShallow(ns, parentFolderId, potentialSubfolderId) ==
  IF /\ parentFolderId \in DOMAIN ns
     /\ (parentFolderId = potentialSubfolderId
           \/ ns[parentFolderId].parentFolder = potentialSubfolderId)
  THEN "true" ELSE "false"

checkIfSubfolder(ns, parentFolderId, potentialSubfolderId) ==
  SubfolderWalk(ns, parentFolderId, potentialSubfolderId, Cardinality(DOMAIN ns))

\* File.findOne({_id, userId, isFolder: true})
TargetFolder(ns, u, id) == id \in DOMAIN ns /\ ns[id].userId = u /\ ns[id].isFolder = TRUE

MoveH(db, t, u, fileId, targetFolderId, sinkDown) ==
  IF ~Owned(db.nodes, u, fileId)
  THEN Out(db, 404, "NotFound")
  ELSE IF targetFolderId # NULL /\ ~TargetFolder(db.nodes, u, targetFolderId)
  THEN Out(db, 404, "TargetNotFound")
  ELSE IF targetFolderId # NULL /\ db.nodes[fileId].isFolder /\ fileId = targetFolderId
  THEN Out(db, 400, "InvalidMove")
  ELSE IF /\ targetFolderId # NULL
          /\ db.nodes[fileId].isFolder
          /\ checkIfSubfolder(db.nodes, targetFolderId, fileId) = "true"
  THEN Out(db, 400, "CyclicMove")
  ELSE IF /\ targetFolderId # NULL
          /\ db.nodes[fileId].isFolder
          /\ checkIfSubfolder(db.nodes, targetFolderId, fileId) = "diverges"
  THEN Out(db, 0, "NoResponse")
  ELSE LET file == [db.nodes[fileId] EXCEPT !.parentFolder = targetFolderId]
           db1 == [db EXCEPT !.nodes = Put(@, fileId, Saved(file, t))]
       IN IF logActivityThrows("move", sinkDown)
          THEN Out(db1, 500, "ServerError")
          ELSE Out(db1, 200, "none")

Move(u, fileId, targetFolderId, sinkDown) ==
  Commit(MoveH(DB, now, u, fileId, targetFolderId, sinkDown))

(***************************************************************************)
(* POST /:fileId/copy                                                      *)
(***************************************************************************)
\* (mutant) the copy is a clone of the whole document, renamed and re-parented
CopyOfCloning(originalFile, u, targetFolderId) ==
  [originalFile EXCEPT !.name = Trim(@ \o CopySuffix),
                       !.userId = u,
                       !.parentFolder = targetFolderId]

\* new File({ name: originalFile.name + ' (Copy)', type, size, path, userId,
\* parentFolder: targetFolderId, isFolder })
CopyOf(originalFile, u, targetFolderId) ==
  NewFile(originalFile.name \o CopySuffix, originalFile.type,
          originalFile.size, originalFile.path, u,
          targetFolderId, originalFile.isFolder)

CopyH(db, t, u, fileId, targetFolderId, sinkDown) ==
  IF ~Owned(db.nodes, u, fileId)
  THEN Out(db, 404, "NotFound")
  ELSE IF targetFolderId # NULL /\ ~TargetFolder(db.nodes, u, targetFolderId)
  THEN Out(db, 404, "TargetNotFound")
  ELSE LET originalFile == db.nodes[fileId]
           fileCopy == CopyOf(originalFile, u, targetFolderId)
           db1 == [db EXCEPT !.nodes = Put(@, db.nextId, Saved(fileCopy, t)),
                             !.nextId = @ + 1]
       IN IF logActivityThrows("copy", sinkDown)
          THEN Out(db1, 500, "ServerError")
          ELSE Out(db1, 200, "none")

Copy(u, fileId, targetFolderId, sinkDown) ==
  Commit(CopyH(DB, now, u, fileId, targetFolderId, sinkDown))

(***************************************************************************)
(* POST /:fileId/share.  targetUser is the User the email resolves to, or  *)
(* NoUser.                                                                 *)
(***************************************************************************)
\* (mutant) the ids are compared as objects, never equal
sharingWithSelfByIdentity(targetUser, u) == FALSE

\* targetUser._id.toString() === req.user._id.toString()
sharingWithSelf(targetUser, u) == targetUser = u

\* (mutant) the ids are compared as objects, never equal
alreadySharedByIdentity(file, targetUser) == FALSE

\* file.sharedWith.some(share => share.user.toString() === targetUser._id.toString())
alreadyShared(file, targetUser) ==
  \E i \in DOMAIN file.sharedWith : file.sharedWith[i].user = targetUser

ShareH(db, t, u, fileId, targetUser, permission, sinkDown) ==
  IF targetUser = NoUser
  THEN Out(db, 404, "UserNotFound")
  ELSE IF sharingWithSelf(targetUser, u)
  THEN Out(db, 400, "SelfShareForbidden")
  ELSE IF ~Owned(db.nodes, u, fileId)
  THEN Out(db, 404, "NotFound")
  ELSE IF alreadyShared(db.nodes[fileId], targetUser)
  THEN Out(db, 400, "AlreadyShared")
  ELSE LET file == [db.nodes[fileId] EXCEPT
                      !.sharedWith = Append(@, [user |-> targetUser,
                                                permission |-> permission,
                                                sharedAt |-> t])]
           db1 == [db EXCEPT !.nodes = Put(@, fileId, Saved(file, t))]
       IN IF logActivityThrows("share", sinkDown)
          THEN Out(db1, 500, "ServerError")
          ELSE Out(db1, 200, "none")

Share(u, fileId, targetUser, permission, sinkDown) ==
  Commit(ShareH(DB, now, u, fileId, targetUser, permission, sinkDown))

(***************************************************************************)
(* POST /:fileId/trash and POST /:fileId/restore                           *)
(***************************************************************************)
\* (mutant) trash sets no purge date
TrashedDocWithoutPurgeDate(doc, t) ==
  [doc EXCEPT !.inTrash = TRUE, !.deletedAt = t]

\* file.inTrash = true; file.deletedAt = new Date();
\* file.permanentDeleteAt = new Date(Date.now() + 30 * 24 * 60 * 60 * 1000)
TrashedDoc(doc, t) ==
  [doc EXCEPT !.inTrash = TRUE, !.deletedAt = t, !.permanentDeleteAt = t + RetentionDays]

\* (mutant) restore leaves the purge date in place
RestoredDocKeepingPurgeDate(doc) ==
  [doc EXCEPT !.inTrash = FALSE, !.deletedAt = NullDate]

\* file.inTrash = false; file.deletedAt = null; file.permanentDeleteAt = null
RestoredDoc(doc) ==
  [doc EXCEPT !.inTrash = FALSE, !.deletedAt = NullDate, !.permanentDeleteAt = NullDate]

\* (mutant) trashing a folder also trashes the documents directly under it
TrashHCascading(db, t, u, fileId, statsDown, sinkDown) ==
  IF ~Owned(db.nodes, u, fileId)
  THEN Out(db, 404, "NotFound")
  ELSE LET ns == [i \in DOMAIN db.nodes |->
                    IF i = fileId \/ db.nodes[i].parentFolder = fileId
                    THEN Saved(TrashedDoc(db.nodes[i], t), t)
                    ELSE db.nodes[i]]
           db1 == [db EXCEPT !.nodes = ns]
           db2 == [db1 EXCEPT !.stats = updateUserStats(@, db1.nodes, u, t)]
       IN IF statsDown
          THEN Out(db1, 500, "ServerError")
          ELSE IF logActivityThrows("delete", sinkDown)
          THEN Out(db2, 500, "ServerError")
          ELSE Out(db2, 200, "none")

TrashH(db, t, u, fileId, statsDown, sinkDown) ==
  IF ~Owned(db.nodes, u, fileId)
  THEN Out(db, 404, "NotFound")
  ELSE LET file == TrashedDoc(db.nodes[fileId], t)
           db1 == [db EXCEPT !.nodes = Put(@, fileId, Saved(file, t))]
           db2 == [db1 EXCEPT !.stats = updateUserStats(@, db1.nodes, u, t)]
       IN IF statsDown
          THEN Out(db1, 500, "ServerError")
          ELSE IF logActivityThrows("delete", sinkDown)
          THEN Out(db2, 500, "ServerError")
          ELSE Out(db2, 200, "none")

Trash(u, fileId, statsDown, sinkDown) ==
  Commit(TrashH(DB, now, u, fileId, statsDown, sinkDown))

RestoreH(db, t, u, fileId, statsDown, sinkDown) ==
  IF ~(Owned(db.nodes, u, fileId) /\ db.nodes[fileId].inTrash = TRUE)
  THEN Out(db, 404, "NotFound")
  ELSE LET file == RestoredDoc(db.nodes[fileId])
           db1 == [db EXCEPT !.nodes = Put(@, fileId, Saved(file, t))]
           db2 == [db1 EXCEPT !.stats = updateUserStats(@, db1.nodes, u, t)]
       IN IF statsDown
          THEN Out(db1, 500, "ServerError")
          ELSE IF logActivityThrows("restore", sinkDown)
          THEN Out(db2, 500, "ServerError")
          ELSE Out(db2, 200, "none")

Restore(u, fileId, statsDown, sinkDown) ==
  Commit(RestoreH(DB, now, u, fileId, statsDown, sinkDown))

(***************************************************************************)
(* DELETE /:fileId and DELETE /trash/empty                                 *)
(***************************************************************************)
\* (mutant) the statistics are recomputed before the document is looked up
DeleteHStatsFirst(db, t, u, fileId, statsDown, sinkDown) ==
  LET db0 == [db EXCEPT !.stats = updateUserStats(@, db.nodes, u, t)]
  IN IF ~Owned(db.nodes, u, fileId)
     THEN Out(db0, 404, "NotFound")
     ELSE LET file == db.nodes[fileId]
              db1 == [db0 EXCEPT !.blobs = @ \ {file.path},
                                 !.nodes = Drop(@, {fileId})]
              db2 == [db1 EXCEPT !.stats = updateUserStats(@, db1.nodes, u, t)]
          IN IF logActivityThrows("permanent_delete", sinkDown)
             THEN Out(db2, 500, "ServerError")
             ELSE Out(db2, 200, "none")

DeleteH(db, t, u, fileId, statsDown, sinkDown) ==
  IF ~Owned(db.nodes, u, fileId)
  THEN Out(db, 404, "NotFound")
  ELSE LET file == db.nodes[fileId]
           db1 == [db EXCEPT !.blobs = @ \ {file.path},
                             !.nodes = Drop(@, {fileId})]
           db2 == [db1 EXCEPT !.stats = updateUserStats(@, db1.nodes, u, t)]
       IN IF statsDown
          THEN Out(db1, 500, "ServerError")
          ELSE IF logActivityThrows("permanent_delete", sinkDown)
          THEN Out(db2, 500, "ServerError")
          ELSE Out(db2, 200, "none")

Delete(u, fileId, statsDown, sinkDown) ==
  Commit(DeleteH(DB, now, u, fileId, statsDown, sinkDown))

\* (mutant) the query forgets the user
TrashFilesOfAnyUser(ns, u) == {i \in DOMAIN ns : ns[i].inTrash = TRUE}

\* { userId: req.user._id, inTrash: true }
TrashFiles(ns, u) == {i \in DOMAIN ns : ns[i].userId = u /\ ns[i].inTrash = TRUE}

EmptyTrashH(db, t, u, statsDown, sinkDown) ==
  LET trashFiles == TrashFiles(db.nodes, u)
      db1 == [db EXCEPT !.blobs = @ \ {db.nodes[i].path : i \in trashFiles},
                        !.nodes = Drop(@, trashFiles)]
      db2 == [db1 EXCEPT !.stats = updateUserStats(@, db1.nodes, u, t)]
  IN IF statsDown
     THEN Out(db1, 500, "ServerError")
     ELSE IF logActivityThrows("empty_trash", sinkDown)
     THEN Out(db2, 500, "ServerError")
     ELSE Out(db2, 200, "none")

EmptyTrash(u, statsDown, sinkDown) ==
  Commit(EmptyTrashH(DB, now, u, statsDown, sinkDown))

(***************************************************************************)
(* The reads: GET /:fileId/download, GET /:fileId/info, GET /shared,       *)
(* GET /storage/overview (of files.js and of storage.js).                  *)
(***************************************************************************)
\* File.findOne({_id, $or: [{userId}, {'sharedWith.user': userId}]})
OwnedOrShared(ns, u, id) ==
  id \in DOMAIN ns /\ (ns[id].userId = u \/ isSharedWith(ns[id], u))

DownloadH(db, t, u, fileId, sinkDown) ==
  IF ~OwnedOrShared(db.nodes, u, fileId)
  THEN Out(db, 404, "NotFound")
  ELSE IF db.nodes[fileId].isFolder
  THEN Out(db, 400, "CannotDownloadFolder")
  ELSE IF db.nodes[fileId].path \notin db.blobs
  THEN Out(db, 404, "NotOnServer")
  ELSE IF logActivityThrows("download", sinkDown)
  THEN Out(db, 500, "ServerError")
  ELSE Out(db, 200, "none")

Download(u, fileId, sinkDown) ==
  Commit(DownloadH(DB, now, u, fileId, sinkDown))

InfoH(db, t, u, fileId) ==
  IF ~OwnedOrShared(db.nodes, u, fileId)
  THEN Out(db, 404, "NotFound")
  ELSE Out(db, 200, "none")

Info(u, fileId) == Commit(InfoH(DB, now, u, fileId))

\* File.find({'sharedWith.user': userId, inTrash: false})
\* (mutant) the query forgets inTrash: false
SharedFilesWithTrash(ns, u) == {i \in DOMAIN ns : isSharedWith(ns[i], u)}

\* File.find({ 'sharedWith.user': req.user._id, inTrash: false })
SharedFiles(ns, u) ==
  {i \in DOMAIN ns : isSharedWith(ns[i], u) /\ ns[i].inTrash = FALSE}

Shared(u) == SharedFiles(nodes, u) # {} /\ UNCHANGED vars

\* files.js: recomputes only when the user has no StorageStats yet
FilesOverviewH(db, t, u, statsDown) ==
  IF u \in DOMAIN db.stats
  THEN Out(db, 200, "none")
  ELSE IF statsDown
  THEN Out(db, 500, "ServerError")
  ELSE Out([db EXCEPT !.stats = updateUserStats(@, db.nodes, u, t)], 200, "none")

\* storage.js: also when lastCalculated is more than 5 minutes old
MinutesPerDay == 1440
StaleMinutes == 5
StorageOverviewH(db, t, u, statsDown) ==
  IF u \in DOMAIN db.stats /\ ~((t - db.stats[u].lastCalculated) * MinutesPerDay > StaleMinutes)
  THEN Out(db, 200, "none")
  ELSE IF statsDown
  THEN Out(db, 500, "ServerError")
  ELSE Out([db EXCEPT !.stats = updateUserStats(@, db.nodes, u, t)], 200, "none")

FilesOverview(u, statsDown) == Commit(FilesOverviewH(DB, now, u, statsDown))
StorageOverview(u, statsDown) == Commit(StorageOverviewH(DB, now, u, statsDown))

(***************************************************************************)
(* MongoDB's TTL monitor on the index {permanentDeleteAt: 1} with          *)
(* expireAfterSeconds: 0: it removes the document, and nothing else.       *)
(***************************************************************************)
IsDate(d) == d # NoDate /\ d # NullDate
\* (mutant) the TTL index is on deletedAt
ExpiredByDeletedAt(doc, t) == IsDate(doc.deletedAt) /\ doc.deletedAt <= t

Expired(doc, t) == IsDate(doc.permanentDeleteAt) /\ doc.permanentDeleteAt <= t

TtlSweep(id) ==
  /\ id \in DOMAIN nodes
  /\ Expired(nodes[id], now)
  /\ nodes' = Drop(nodes, {id})
  /\ UNCHANGED <<nextId, blobs, nextBlob, stats, now, ticks, reqs>>

Tick ==
  /\ ticks < MaxTicks
  /\ now' = now + RetentionDays
  /\ ticks' = ticks + 1
  /\ UNCHANGED <<nodes, nextId, blobs, nextBlob, stats, reqs>>

Batches == UNION {[1 .. n -> UploadFiles] : n \in 1 .. MaxBatch}

(***************************************************************************)
(* SpecTree: one user's requests that build and reshape the tree, served   *)
(* one after the other.                                                    *)
(***************************************************************************)
Owner == "u1"

NextTree ==
  \/ \E name \in NameInputs, p \in ParentInputs : CreateFolder(Owner, name, p, FALSE)
  \/ \E f \in UploadFiles, p \in ParentInputs : Upload(Owner, f, p, FALSE, FALSE)
  \/ \E id \in RequestIds, p \in ParentInputs : Move(Owner, id, p, FALSE)
  \/ \E id \in RequestIds, p \in ParentInputs : Copy(Owner, id, p, FALSE)
  \/ \E id \in RequestIds : Trash(Owner, id, FALSE, FALSE)
  \/ \E id \in RequestIds : Restore(Owner, id, FALSE, FALSE)
  \/ \E id \in RequestIds : Delete(Owner, id, FALSE, FALSE)

SpecTree == Init /\ [][NextTree]_vars

(***************************************************************************)
(* SpecQuota: the requests of two users that change what is stored and     *)
(* what StorageStats records of it.                                        *)
(***************************************************************************)
NextQuota ==
  \/ \E u \in Users : CreateFolder(u, <<"a">>, NULL, FALSE)
  \/ \E u \in Users, f \in UploadFiles, p \in ParentInputs : Upload(u, f, p, FALSE, FALSE)
  \/ \E u \in Users, fs \in Batches : UploadMultiple(u, fs, NULL, FALSE, 0)
  \/ \E u \in Users, id \in RequestIds : Copy(u, id, NULL, FALSE)
  \/ \E u \in Users, id \in RequestIds : Trash(u, id, FALSE, FALSE)
  \/ \E u \in Users, id \in RequestIds : Restore(u, id, FALSE, FALSE)
  \/ \E u \in Users, id \in RequestIds : Delete(u, id, FALSE, FALSE)
  \/ \E u \in Users : EmptyTrash(u, FALSE, FALSE)
  \/ \E u \in Users : FilesOverview(u, FALSE)
  \/ \E u \in Users : StorageOverview(u, FALSE)

SpecQuota == Init /\ [][NextQuota]_vars

(***************************************************************************)
(* Spec: the life of the owner's documents (create, share, trash,  *)
(* restore, delete, the TTL monitor) with a second user who is granted     *)
(* access and sends requests of his own, and the clock.                    *)
(***************************************************************************)
Next ==
  \/ \E p \in ParentInputs :
        nextId <= MaxLifeNodes /\ CreateFolder(Owner, <<"a">>, p, FALSE)
  \/ \E f \in UploadFiles, p \in ParentInputs :
        nextId <= MaxLifeNodes /\ Upload(Owner, f, p, FALSE, FALSE)
  \/ \E u \in Users, id \in RequestIds, g \in Users \cup {NoUser}, perm \in Permissions :
        Share(u, id, g, perm, FALSE)
  \/ \E u \in Users, id \in RequestIds : Trash(u, id, FALSE, FALSE)
  \/ \E u \in Users, id \in RequestIds : Restore(u, id, FALSE, FALSE)
  \/ \E u \in Users, id \in RequestIds : Delete(u, id, FALSE, FALSE)
  \/ \E u \in Users : EmptyTrash(u, FALSE, FALSE)
  \/ \E u \in Users, id \in RequestIds : Download(u, id, FALSE)
  \/ \E u \in Users, id \in RequestIds : Info(u, id)
  \/ \E u \in Users : Shared(u)
  \/ \E id \in RequestIds : TtlSweep(id)
  \/ Tick

Spec == Init /\ [][Next]_vars

(***************************************************************************)
(* Requests in flight.  A handler is an async function: between two of its *)
(* awaits the handlers of other requests run.  reqs holds, for each        *)
(* request started, the handler's position (pc), its local variables and,  *)
(* once it has answered, the response.  One step is one await: one query   *)
(* or write of the store, with the synchronous code that follows it.       *)
(***************************************************************************)
NoUpload == [originalname |-> << >>, mimetype |-> "none", size |-> 0]
NoCounts == [fileTypeBreakdown |-> [ty \in Types |-> 0],
             totalFiles |-> 0, totalFolders |-> 0, totalSize |-> 0]

Request(op, u, fileId, target, file, pc) ==
  [op |-> op, pc |-> pc, u |-> u, fileId |-> fileId, target |-> target,
   file |-> file, isFolder |-> FALSE, oldParent |-> NULL, cur |-> NULL,
   agg |-> NoCounts, status |-> 0, error |-> "none"]

Respond(r, status, error) ==
  reqs' = [reqs EXCEPT ![r].pc = "done", ![r].status = status, ![r].error = error]

At(r, op, pc) == reqs[r].op = op /\ reqs[r].pc = pc

\* POST /:fileId/move arrives
StartMove(u, fileId, targetFolderId) ==
  /\ Len(reqs) < MaxReqs
  /\ reqs' = Append(reqs, Request("move", u, fileId, targetFolderId, NoUpload, "findFile"))
  /\ UNCHANGED <<nodes, nextId, blobs, nextBlob, stats, now, ticks>>

\* const file = await File.findOne({ _id: fileId, userId })
MoveFindFile(r) ==
  /\ At(r, "move", "findFile")
  /\ LET q == reqs[r]
     IN IF ~Owned(nodes, q.u, q.fileId)
        THEN Respond(r, 404, "NotFound")
        ELSE reqs' = [reqs EXCEPT ![r].isFolder = nodes[q.fileId].isFolder,
                                  ![r].oldParent = nodes[q.fileId].parentFolder,
                                  ![r].pc = IF q.target = NULL THEN "save" ELSE "findTarget"]
  /\ UNCHANGED <<nodes, nextId, blobs, nextBlob, stats, now, ticks>>

\* const targetFolder = await File.findOne({ _id: targetFolderId, userId,
\* isFolder: true }), and the checks up to the call of checkIfSubfolder
MoveFindTarget(r) ==
  /\ At(r, "move", "findTarget")
  /\ LET q == reqs[r]
     IN IF ~TargetFolder(nodes, q.u, q.target)
        THEN Respond(r, 404, "TargetNotFound")
        ELSE IF q.isFolder /\ q.fileId = q.target
        THEN Respond(r, 400, "InvalidMove")
        ELSE IF q.isFolder
        THEN reqs' = [reqs EXCEPT ![r].cur = q.target, ![r].pc = "walk"]
        ELSE reqs' = [reqs EXCEPT ![r].pc = "save"]
  /\ UNCHANGED <<nodes, nextId, blobs, nextBlob, stats, now, ticks>>

\* one round of the loop of checkIfSubfolder:
\* const folder = await File.findById(currentFolderId)
MoveWalk(r) ==
  /\ At(r, "move", "walk")
  /\ LET q == reqs[r]
     IN IF q.cur \notin DOMAIN nodes
        THEN reqs' = [reqs EXCEPT ![r].pc = "save"]
        ELSE IF q.cur = q.fileId
        THEN Respond(r, 400, "CyclicMove")
        ELSE IF nodes[q.cur].parentFolder = NULL
        THEN reqs' = [reqs EXCEPT ![r].cur = NULL, ![r].pc = "save"]
        ELSE reqs' = [reqs EXCEPT ![r].cur = nodes[q.cur].parentFolder]
  /\ UNCHANGED <<nodes, nextId, blobs, nextBlob, stats, now, ticks>>

\* file.parentFolder = targetFolderId; file.updatedAt = new Date();
\* await file.save() writes the paths the handler has modified on the
\* document it loaded; logActivity('move'); res.json
MoveSave(r) ==
  /\ At(r, "move", "save")
  /\ LET q == reqs[r]
     IN IF q.fileId \notin DOMAIN nodes
        THEN Respond(r, 500, "ServerError") /\ UNCHANGED nodes
        ELSE /\ nodes' = [nodes EXCEPT
                            ![q.fileId].parentFolder =
                               IF q.target = q.oldParent THEN @ ELSE q.target,
                            ![q.fileId].updatedAt = now]
             /\ Respond(r, 200, "none")
  /\ UNCHANGED <<nextId, blobs, nextBlob, stats, now, ticks>>

\* POST /upload arrives
StartUpload(u, file, parentFolder) ==
  /\ Len(reqs) < MaxReqs
  /\ reqs' = Append(reqs, Request("upload", u, NULL, parentFolder, file,
                                  IF parentFolder = NULL THEN "checkQuota" ELSE "checkParent"))
  /\ UNCHANGED <<nodes, nextId, blobs, nextBlob, stats, now, ticks>>

\* const parentFolderDoc = await File.findOne({...})
UploadCheckParent(r) ==
  /\ At(r, "upload", "checkParent")
  /\ IF ~ParentFolderDoc(nodes, reqs[r].u, reqs[r].target)
     THEN Respond(r, 400, "InvalidParent")
     ELSE reqs' = [reqs EXCEPT ![r].pc = "checkQuota"]
  /\ UNCHANGED <<nodes, nextId, blobs, nextBlob, stats, now, ticks>>

\* const storageStats = await StorageStats.findOne({ userId })
UploadCheckQuota(r) ==
  /\ At(r, "upload", "checkQuota")
  /\ IF OverQuota(stats, reqs[r].u, reqs[r].file.size)
     THEN Respond(r, 400, "QuotaExceeded")
     ELSE reqs' = [reqs EXCEPT ![r].pc = "save"]
  /\ UNCHANGED <<nodes, nextId, blobs, nextBlob, stats, now, ticks>>

\* await newFile.save()
UploadSave(r) ==
  /\ At(r, "upload", "save")
  /\ nextId <= MaxNodes
  /\ LET q == reqs[r]
         newFile == NewFile(q.file.originalname, getFileTypeFromMime(q.file.mimetype),
                            q.file.size, nextBlob, q.u, q.target, FALSE)
     IN IF ~Valid(newFile)
        THEN Respond(r, 500, "ServerError") /\ UNCHANGED <<nodes, nextId, blobs, nextBlob>>
        ELSE /\ nodes' = Put(nodes, nextId, Saved(newFile, now))
             /\ nextId' = nextId + 1
             /\ blobs' = blobs \cup {nextBlob}
             /\ nextBlob' = nextBlob + 1
             /\ reqs' = [reqs EXCEPT ![r].fileId = nextId, ![r].pc = "fileStats"]
  /\ UNCHANGED <<stats, now, ticks>>

\* updateUserStats: const fileStats = await File.aggregate([...])
UploadFileStats(r) ==
  /\ At(r, "upload", "fileStats")
  /\ reqs' = [reqs EXCEPT ![r].agg.fileTypeBreakdown = AggFileStats(nodes, reqs[r].u),
                          ![r].pc = "counts"]
  /\ UNCHANGED <<nodes, nextId, blobs, nextBlob, stats, now, ticks>>

\* updateUserStats: const counts = await File.aggregate([...])
UploadCounts(r) ==
  /\ At(r, "upload", "counts")
  /\ LET c == AggCounts(nodes, reqs[r].u)
     IN reqs' = [reqs EXCEPT ![r].agg.totalFiles = c.totalFiles,
                             ![r].agg.totalFolders = c.totalFolders,
                             ![r].agg.totalSize = c.totalSize,
                             ![r].pc = "writeStats"]
  /\ UNCHANGED <<nodes, nextId, blobs, nextBlob, stats, now, ticks>>

\* updateUserStats: await this.findOneAndUpdate(..., { upsert: true });
\* logActivity('upload'); res.status(201)
UploadWriteStats(r) ==
  /\ At(r, "upload", "writeStats")
  /\ LET q == reqs[r]
         rec == StatsDoc(q.agg.fileTypeBreakdown, q.agg, now)
     IN stats' = [u \in DOMAIN stats \cup {q.u} |-> IF u = q.u THEN rec ELSE stats[u]]
  /\ Respond(r, 201, "none")
  /\ UNCHANGED <<nodes, nextId, blobs, nextBlob, now, ticks>>

(***************************************************************************)
(* SpecConc: the owner's moves and uploads served concurrently, over       *)
(* folders created at the root.                                            *)
(***************************************************************************)
NextConc ==
  \/ \E name \in {<<"a">>, <<"b">>} : CreateFolder(Owner, name, NULL, FALSE)
  \/ \E id \in RequestIds, p \in ParentInputs : StartMove(Owner, id, p)
  \/ \E r \in DOMAIN reqs : MoveFindFile(r)
  \/ \E r \in DOMAIN reqs : MoveFindTarget(r)
  \/ \E r \in DOMAIN reqs : MoveWalk(r)
  \/ \E r \in DOMAIN reqs : MoveSave(r)
  \/ \E f \in UploadFiles, p \in ParentInputs : StartUpload(Owner, f, p)
  \/ \E r \in DOMAIN reqs : UploadCheckParent(r)
  \/ \E r \in DOMAIN reqs : UploadCheckQuota(r)
  \/ \E r \in DOMAIN reqs : UploadSave(r)
  \/ \E r \in DOMAIN reqs : UploadFileStats(r)
  \/ \E r \in DOMAIN reqs : UploadCounts(r)
  \/ \E r \in DOMAIN reqs : UploadWriteStats(r)

SpecConc == Init /\ [][NextConc]_vars

(***************************************************************************)
(* The parent graph, for the properties below.                             *)
(***************************************************************************)
\* the documents met by following parentFolder from id, in at most k steps
RECURSIVE ParentChain(_, _, _)
ParentChain(ns, id, k) ==
  IF k = 0 \/ id \notin DOMAIN ns THEN {}
  ELSE IF ns[id].parentFolder \notin DOMAIN ns THEN {}
  ELSE {ns[id].parentFolder} \cup ParentChain(ns, ns[id].parentFolder, k - 1)

Ancestors(ns, id) == ParentChain(ns, id, Cardinality(DOMAIN ns))

ProperDescendant(ns, d, a) == d # a /\ a \in Ancestors(ns, d)

Unchanged(r) == r.db = DB

(***************************************************************************)
(* C1.  Acyclicity: after any sequence of create, move, copy, trash,       *)
(* restore and delete requests of one user, served one after the other,    *)
(* no document is its own ancestor in the parent graph.                    *)
(***************************************************************************)
C1_Acyclic == \A id \in DOMAIN nodes : id \notin Ancestors(nodes, id)

(***************************************************************************)
(* C2.  When two move requests of one user have both been answered 200,    *)
(* however their steps interleaved, no document is its own ancestor.       *)
(***************************************************************************)
C2_ConcurrentMovesAcyclic ==
  (\E i, j \in DOMAIN reqs :
      /\ i # j
      /\ reqs[i].u = reqs[j].u
      /\ reqs[i].op = "move" /\ reqs[i].pc = "done" /\ reqs[i].status = 200
      /\ reqs[j].op = "move" /\ reqs[j].pc = "done" /\ reqs[j].status = 200)
  => \A id \in DOMAIN nodes : id \notin Ancestors(nodes, id)

(***************************************************************************)
(* C3.  A move of folder A into a folder that is a proper descendant of A, *)
(* at any depth, is answered 400 "Cannot move folder into its own          *)
(* subfolder" and changes no document.                                     *)
(***************************************************************************)
C3_CyclicMoveRejected ==
  \A u \in Users, a \in DOMAIN nodes, tgt \in DOMAIN nodes, sd \in BOOLEAN :
    ( /\ Owned(nodes, u, a)
      /\ nodes[a].isFolder
      /\ TargetFolder(nodes, u, tgt)
      /\ ProperDescendant(nodes, tgt, a) )
    => LET r == MoveH(DB, now, u, a, tgt, sd)
       IN r.status = 400 /\ r.error = "CyclicMove" /\ Unchanged(r)

\* a folder with a folder two levels below it
C3_Witness ==
  \E a \in DOMAIN nodes, tgt \in DOMAIN nodes :
    /\ Owned(nodes, Owner, a)
    /\ nodes[a].isFolder
    /\ TargetFolder(nodes, Owner, tgt)
    /\ ProperDescendant(nodes, tgt, a)
    /\ nodes[tgt].parentFolder # a

(***************************************************************************)
(* C4.  An upload of size d into a parent that resolves is answered 201    *)
(* only if usedStorage + d <= the limit, usedStorage being the user's      *)
(* StorageStats record (0 without one); otherwise it is answered 400       *)
(* "Storage limit exceeded", no document is created and the record is      *)
(* left as it was.  The same holds of upload-multiple and the sum of its   *)
(* sizes.  With 1000 bytes recorded under the limit of 2000, an upload of  *)
(* 1500 fails and the record still says 1000.                              *)
(***************************************************************************)
Used(u) == IF u \in DOMAIN stats THEN stats[u].usedStorage ELSE 0

C4_UploadQuota ==
  \A u \in Users, p \in ParentInputs, st \in BOOLEAN, sd \in BOOLEAN :
    (p = NULL \/ ParentFolderDoc(nodes, u, p)) =>
      /\ \A f \in UploadFiles :
           LET r == UploadH(DB, now, u, f, p, st, sd)
           IN /\ r.status = 201 => Used(u) + f.size <= QuotaLimit
              /\ Used(u) + f.size > QuotaLimit =>
                   r.status = 400 /\ r.error = "QuotaExceeded" /\ Unchanged(r)
      /\ \A fs \in Batches :
           LET r == UploadMultipleH(DB, now, u, fs, p, st, IF sd THEN 1 ELSE 0)
           IN /\ r.status = 201 => Used(u) + SumSizes(fs) <= QuotaLimit
              /\ Used(u) + SumSizes(fs) > QuotaLimit =>
                   r.status = 400 /\ r.error = "QuotaExceeded" /\ Unchanged(r)

\* 1000 bytes are recorded for a user, and his upload of 1500 is refused
C4_Witness ==
  \E u \in Users, f \in UploadFiles :
    /\ u \in DOMAIN stats
    /\ stats[u].usedStorage = 1000
    /\ f.size = 1500
    /\ UploadH(DB, now, u, f, NULL, FALSE, FALSE).error = "QuotaExceeded"
    /\ UploadH(DB, now, u, f, NULL, FALSE, FALSE).db.stats[u].usedStorage = 1000

(***************************************************************************)
(* C6.  Quota conservation: the record updateUserStats writes for a user   *)
(* equals the recomputation over that user's non-trashed documents:        *)
(* usedStorage is the sum of the sizes of his non-trashed files,           *)
(* totalFiles and totalFolders count his non-trashed files and folders,    *)
(* fileTypeBreakdown[t] his non-trashed documents of type t; trashed       *)
(* documents and other users' documents add nothing.                       *)
(***************************************************************************)
LiveOf(u) == {i \in DOMAIN nodes : nodes[i].userId = u /\ ~nodes[i].inTrash}
LiveFilesOf(u) == {i \in LiveOf(u) : ~nodes[i].isFolder}
LiveFoldersOf(u) == {i \in LiveOf(u) : nodes[i].isFolder}

RECURSIVE SizeSum(_)
SizeSum(S) ==
  IF S = {} THEN 0
  ELSE LET i == CHOOSE j \in S : TRUE IN nodes[i].size + SizeSum(S \ {i})

MatchesRecomputation(rec, u) ==
  /\ rec.usedStorage = SizeSum(LiveFilesOf(u))
  /\ rec.totalFiles = Cardinality(LiveFilesOf(u))
  /\ rec.totalFolders = Cardinality(LiveFoldersOf(u))
  /\ \A ty \in Types :
       rec.fileTypeBreakdown[ty] = Cardinality({i \in LiveOf(u) : nodes[i].type = ty})

C6_Reconciled ==
  \A u \in Users :
    MatchesRecomputation(updateUserStats(stats, nodes, u, now)[u], u)

\* a record just written over a live file, a trashed file and a document
\* of the other user
C6_Witness ==
  \E u \in Users :
    /\ u \in DOMAIN stats
    /\ stats[u] = updateUserStats(stats, nodes, u, now)[u]
    /\ LiveFilesOf(u) # {}
    /\ \E i \in DOMAIN nodes : nodes[i].userId = u /\ nodes[i].inTrash /\ ~nodes[i].isFolder
    /\ \E i \in DOMAIN nodes : nodes[i].userId # u

(***************************************************************************)
(* C5.  Two uploads of one user that run concurrently are not both         *)
(* answered 201 when their sizes, added to what the user already stores,   *)
(* exceed the limit: after two such answers the user's files that are not  *)
(* in trash hold at most QuotaLimit bytes.                                 *)
(***************************************************************************)
C5_ConcurrentUploadsWithinQuota ==
  \A i, j \in DOMAIN reqs :
    (/\ i # j
     /\ reqs[i].u = reqs[j].u
     /\ reqs[i].op = "upload" /\ reqs[i].pc = "done" /\ reqs[i].status = 201
     /\ reqs[j].op = "upload" /\ reqs[j].pc = "done" /\ reqs[j].status = 201)
    => SizeSum(LiveFilesOf(reqs[i].u)) <= QuotaLimit

(***************************************************************************)
(* C7.  A document is removed only while it is in trash, and the id of a   *)
(* removed document is never a document's again.                           *)
(***************************************************************************)
C7_Lifecycle ==
  [][ /\ \A id \in DOMAIN nodes : id \notin DOMAIN nodes' => nodes[id].inTrash
      /\ \A id \in DOMAIN nodes' : id \notin DOMAIN nodes => id >= nextId ]_vars

(***************************************************************************)
(* C8.  In every state a document is in trash iff deletedAt and            *)
(* permanentDeleteAt are dates, and then permanentDeleteAt is deletedAt    *)
(* plus 30 days; and no request changes either date of a document whose    *)
(* inTrash it leaves as it was.                                            *)
(***************************************************************************)
TrashDatesSet ==
  \A id \in DOMAIN nodes :
    /\ nodes[id].inTrash <=> (IsDate(nodes[id].deletedAt) /\ IsDate(nodes[id].permanentDeleteAt))
    /\ nodes[id].inTrash => nodes[id].permanentDeleteAt = nodes[id].deletedAt + RetentionDays

TrashDatesKept ==
  \A id \in DOMAIN nodes :
    (id \in DOMAIN nodes' /\ nodes'[id].inTrash = nodes[id].inTrash) =>
      /\ IsDate(nodes[id].deletedAt) => nodes'[id].deletedAt = nodes[id].deletedAt
      /\ IsDate(nodes[id].permanentDeleteAt) =>
           nodes'[id].permanentDeleteAt = nodes[id].permanentDeleteAt
      /\ IsDate(nodes'[id].deletedAt) = IsDate(nodes[id].deletedAt)
      /\ IsDate(nodes'[id].permanentDeleteAt) = IsDate(nodes[id].permanentDeleteAt)

C8_TrashDates == []TrashDatesSet /\ [][TrashDatesKept]_vars

(***************************************************************************)
(* C9.  Trash round-trip: trashing an active document and then restoring   *)
(* it, at once or after the clock has advanced, leaves it out of trash     *)
(* with both dates null and with the name, parentFolder, size, sharedWith, *)
(* type and path it had before.                                            *)
(***************************************************************************)
C9_TrashRoundTrip ==
  \A id \in DOMAIN nodes, t2 \in {now, now + RetentionDays} :
    ~nodes[id].inTrash =>
      LET u == nodes[id].userId
          r1 == TrashH(DB, now, u, id, FALSE, FALSE)
          r2 == RestoreH(r1.db, t2, u, id, FALSE, FALSE)
          n == r2.db.nodes[id]
      IN /\ r1.status = 200 /\ r1.db.nodes[id].inTrash
         /\ r2.status = 200
         /\ n.inTrash = FALSE
         /\ ~IsDate(n.deletedAt) /\ ~IsDate(n.permanentDeleteAt)
         /\ n.name = nodes[id].name
         /\ n.parentFolder = nodes[id].parentFolder
         /\ n.size = nodes[id].size
         /\ n.sharedWith = nodes[id].sharedWith
         /\ n.type = nodes[id].type
         /\ n.path = nodes[id].path

\* a shared file in a folder that has been trashed and restored
C9_Witness ==
  \E id \in DOMAIN nodes :
    /\ nodes[id].deletedAt = NullDate
    /\ ~nodes[id].inTrash
    /\ nodes[id].sharedWith # << >>
    /\ nodes[id].parentFolder \in DOMAIN nodes
    /\ ~nodes[id].isFolder

(***************************************************************************)
(* C10.  Sharing isolation: while a document is in trash, no access        *)
(* decision for a user who is not its owner grants access: download and    *)
(* info are not answered 200, canEdit is false, and the shared listing     *)
(* leaves the document out.                                                *)
(***************************************************************************)
C10_SharingIsolation ==
  \A id \in DOMAIN nodes, g \in Users :
    (nodes[id].inTrash /\ g # nodes[id].userId) =>
      /\ DownloadH(DB, now, g, id, FALSE).status # 200
      /\ InfoH(DB, now, g, id).status # 200
      /\ ~canEdit(nodes[id], g)
      /\ id \notin SharedFiles(nodes, g)

(***************************************************************************)
(* C12.  In every state, the parentFolder of a document, when not null, is *)
(* the id of a document that exists, is a folder, is not in trash and has  *)
(* the same owner.                                                         *)
(***************************************************************************)
C12_ParentValid ==
  \A id \in DOMAIN nodes :
    LET p == nodes[id].parentFolder
    IN p # NULL =>
         /\ p \in DOMAIN nodes
         /\ nodes[p].isFolder
         /\ ~nodes[p].inTrash
         /\ nodes[p].userId = nodes[id].userId

(***************************************************************************)
(* C13.  A folder creation or an upload whose parentFolder is not null and *)
(* is not the id of a non-trashed folder of the caller (no such document,  *)
(* a file, a trashed folder, another user's folder) is answered 400        *)
(* InvalidParent and creates nothing.                                      *)
(***************************************************************************)
C13_InvalidParentRejected ==
  \A u \in Users, p \in RequestIds, sd \in BOOLEAN :
    ~ParentFolderDoc(nodes, u, p) =>
      /\ \A name \in NameInputs :
           Trim(name) # << >> =>
             LET r == CreateFolderH(DB, now, u, name, p, sd)
             IN r.status = 400 /\ r.error = "InvalidParent" /\ Unchanged(r)
      /\ \A f \in UploadFiles :
           LET r == UploadH(DB, now, u, f, p, FALSE, sd)
           IN r.status = 400 /\ r.error = "InvalidParent" /\ Unchanged(r)

(***************************************************************************)
(* C14.  A folder creation or an upload under a parent that resolves is    *)
(* answered 400 DuplicateName and creates nothing exactly when the caller  *)
(* has a non-trashed document of the same trimmed name and the same kind   *)
(* directly under that parent; a trashed sibling, one of the other kind,   *)
(* one under another parent or another user's does not block it.           *)
(***************************************************************************)
SiblingNamed(u, name, isFolder, p) ==
  \E i \in DOMAIN nodes :
    /\ nodes[i].userId = u
    /\ nodes[i].name = name
    /\ nodes[i].isFolder = isFolder
    /\ nodes[i].parentFolder = p
    /\ ~nodes[i].inTrash

C14_DuplicateNameRejected ==
  \A u \in Users, p \in ParentInputs, sd \in BOOLEAN :
    (p = NULL \/ ParentFolderDoc(nodes, u, p)) =>
      /\ \A name \in NameInputs :
           Trim(name) # << >> =>
             LET r == CreateFolderH(DB, now, u, name, p, sd)
             IN IF SiblingNamed(u, Trim(name), TRUE, p)
                THEN r.status = 400 /\ r.error = "DuplicateName" /\ Unchanged(r)
                ELSE r.error # "DuplicateName"
      /\ \A f \in UploadFiles :
           LET r == UploadH(DB, now, u, f, p, FALSE, sd)
           IN IF SiblingNamed(u, Trim(f.originalname), FALSE, p)
              THEN r.status = 400 /\ r.error = "DuplicateName" /\ Unchanged(r)
              ELSE r.error # "DuplicateName"

(***************************************************************************)
(* C16.  A move of a document into another parent that already holds a     *)
(* non-trashed document of the same name and kind is refused and leaves    *)
(* the store, and so the document's parentFolder, name and updatedAt, as   *)
(* it was.                                                                 *)
(***************************************************************************)
C16_MoveCollisionRejected ==
  \A u \in Users, id \in DOMAIN nodes, tgt \in ParentInputs, sd \in BOOLEAN :
    (/\ Owned(nodes, u, id)
     /\ tgt = NULL \/ TargetFolder(nodes, u, tgt)
     /\ nodes[id].parentFolder # tgt
     /\ \E s \in DOMAIN nodes \ {id} :
          /\ nodes[s].userId = u
          /\ nodes[s].name = nodes[id].name
          /\ nodes[s].isFolder = nodes[id].isFolder
          /\ nodes[s].parentFolder = tgt
          /\ ~nodes[s].inTrash)
    => LET r == MoveH(DB, now, u, id, tgt, sd)
       IN r.status # 200 /\ Unchanged(r)

(***************************************************************************)
(* C20.  A mutation that has committed reports success even when the       *)
(* activity cannot be recorded: whenever a handler (create folder, upload, *)
(* rename, move, copy, share, trash, restore, permanent delete, empty      *)
(* trash) has changed the File collection, its answer is 200 or 201,       *)
(* whether the Activity store fails or not.                                *)
(***************************************************************************)
CommittedOk(r) == r.db.nodes # nodes => r.status \in {200, 201}

C20_LogFailureTolerated ==
  \A u \in Users, sd \in BOOLEAN :
    /\ \A name \in NameInputs, p \in ParentInputs :
         CommittedOk(CreateFolderH(DB, now, u, name, p, sd))
    /\ \A f \in UploadFiles, p \in ParentInputs :
         CommittedOk(UploadH(DB, now, u, f, p, FALSE, sd))
    /\ \A id \in RequestIds, name \in NameInputs :
         CommittedOk(RenameH(DB, now, u, id, name, sd))
    /\ \A id \in RequestIds, p \in ParentInputs :
         /\ CommittedOk(MoveH(DB, now, u, id, p, sd))
         /\ CommittedOk(CopyH(DB, now, u, id, p, sd))
    /\ \A id \in RequestIds, g \in Users, perm \in Permissions :
         CommittedOk(ShareH(DB, now, u, id, g, perm, sd))
    /\ \A id \in RequestIds :
         /\ CommittedOk(TrashH(DB, now, u, id, FALSE, sd))
         /\ CommittedOk(RestoreH(DB, now, u, id, FALSE, sd))
         /\ CommittedOk(DeleteH(DB, now, u, id, FALSE, sd))
    /\ CommittedOk(EmptyTrashH(DB, now, u, FALSE, sd))

(***************************************************************************)
(* C15.  The duplicate-name check follows renames.  For a live document at *)
(* the root that its owner renames to a new name, with no other live       *)
(* document of its kind at the root bearing the old or the new name: after *)
(* the rename, creating a document of the same kind at the root under the  *)
(* old name succeeds, and creating one under the new name is answered 400  *)
(* DuplicateName and creates nothing.                                      *)
(***************************************************************************)
CreateLike(db, doc, name) ==
  IF doc.isFolder
  THEN CreateFolderH(db, now, doc.userId, name, NULL, FALSE)
  ELSE UploadH(db, now, doc.userId,
               [originalname |-> name, mimetype |-> "image/png", size |-> doc.size],
               NULL, FALSE, FALSE)

C15_RenameFreesName ==
  \A id \in DOMAIN nodes, nm \in NameInputs :
    LET doc == nodes[id]
        r1 == RenameH(DB, now, doc.userId, id, nm, FALSE)
    IN (/\ ~doc.inTrash
        /\ doc.parentFolder = NULL
        /\ r1.status = 200
        /\ Trim(nm) # doc.name
        /\ ~OverQuota(stats, doc.userId, doc.size)
        /\ \A s \in DOMAIN nodes \ {id} :
             (/\ nodes[s].userId = doc.userId
              /\ nodes[s].isFolder = doc.isFolder
              /\ nodes[s].parentFolder = NULL
              /\ ~nodes[s].inTrash)
             => nodes[s].name \notin {doc.name, Trim(nm)})
       => /\ CreateLike(r1.db, doc, doc.name).status = 201
          /\ LET r2 == CreateLike(r1.db, doc, nm)
             IN r2.status = 400 /\ r2.error = "DuplicateName" /\ r2.db = r1.db

(***************************************************************************)
(* C17.  A share request of the owner for a user the document is already   *)
(* shared with is answered 400 AlreadyShared and changes nothing; in every *)
(* state no two entries of a sharedWith list name the same user; and no    *)
(* request changes or removes an entry a sharedWith list holds.            *)
(***************************************************************************)
GranteesUnique ==
  /\ \A u \in Users, id \in RequestIds, g \in Users, perm \in Permissions, sd \in BOOLEAN :
       (Owned(nodes, u, id) /\ isSharedWith(nodes[id], g)) =>
         LET r == ShareH(DB, now, u, id, g, perm, sd)
         IN r.status = 400 /\ r.error = "AlreadyShared" /\ Unchanged(r)
  /\ \A id \in DOMAIN nodes :
       \A i, j \in DOMAIN nodes[id].sharedWith :
         i # j => nodes[id].sharedWith[i].user # nodes[id].sharedWith[j].user

GrantsKept ==
  \A id \in DOMAIN nodes :
    id \in DOMAIN nodes' =>
      \A i \in DOMAIN nodes[id].sharedWith :
        /\ i \in DOMAIN nodes'[id].sharedWith
        /\ nodes'[id].sharedWith[i] = nodes[id].sharedWith[i]

C17_GrantOnce == []GranteesUnique /\ [][GrantsKept]_vars

\* a document shared for viewing, whose owner asks to share it for editing
\* with the same user
C17_Witness ==
  \E id \in DOMAIN nodes, g \in Users :
    /\ Len(nodes[id].sharedWith) = 1
    /\ nodes[id].sharedWith[1] = [user |-> g, permission |-> "view", sharedAt |-> now]
    /\ ShareH(DB, now, nodes[id].userId, id, g, "edit", FALSE).error = "AlreadyShared"

(***************************************************************************)
(* C18.  A share request of the owner naming the owner is answered 400     *)
(* SelfShareForbidden and changes nothing; in every state no sharedWith    *)
(* list names the document's owner.                                        *)
(***************************************************************************)
C18_NoSelfShare ==
  /\ \A u \in Users, id \in RequestIds, perm \in Permissions, sd \in BOOLEAN :
       Owned(nodes, u, id) =>
         LET r == ShareH(DB, now, u, id, u, perm, sd)
         IN r.status = 400 /\ r.error = "SelfShareForbidden" /\ Unchanged(r)
  /\ \A id \in DOMAIN nodes : ~isSharedWith(nodes[id], nodes[id].userId)

\* a document that is shared with another user for editing, and whose
\* owner asks to share it with himself
C18_Witness ==
  \E id \in DOMAIN nodes :
    /\ Len(nodes[id].sharedWith) = 1
    /\ nodes[id].sharedWith[1].permission = "edit"
    /\ nodes[id].sharedWith[1].user # nodes[id].userId
    /\ ShareH(DB, now, nodes[id].userId, id, nodes[id].userId, "view", FALSE).error
         = "SelfShareForbidden"

(***************************************************************************)
(* C19.  Purge idempotence: a permanent delete of an id that is no         *)
(* document's (never created, or already purged) is answered 404 NotFound  *)
(* and changes no document, no blob and no StorageStats record; so a       *)
(* permanent delete repeated leaves what the first one left.               *)
(***************************************************************************)
C19_PurgeIdempotent ==
  \A u \in Users, st \in BOOLEAN, sd \in BOOLEAN :
    /\ \A id \in RequestIds \ DOMAIN nodes :
         LET r == DeleteH(DB, now, u, id, st, sd)
         IN r.status = 404 /\ r.error = "NotFound" /\ Unchanged(r)
    /\ \A id \in DOMAIN nodes :
         Owned(nodes, u, id) =>
           LET r1 == DeleteH(DB, now, u, id, FALSE, FALSE)
               r2 == DeleteH(r1.db, now, u, id, st, sd)
           IN /\ id \notin DOMAIN r1.db.nodes
              /\ r2.status = 404 /\ r2.error = "NotFound"
              /\ r2.db = r1.db

\* a document has been purged while another, with its blob, remains
C19_Witness ==
  /\ \E id \in 1 .. (nextId - 1) : id \notin DOMAIN nodes
  /\ \E id \in DOMAIN nodes : nodes[id].path \in blobs

(***************************************************************************)
(* Restore, permanent delete and empty trash, one await at a time.  The    *)
(* unlink of the blobs is synchronous code that follows the query before   *)
(* it, so it is part of that query's step.  updateUserStats writes only    *)
(* the StorageStats record, which none of these handlers reads: its three  *)
(* awaits, and the logActivity call after them, are taken as one step.     *)
(***************************************************************************)
\* POST /:fileId/restore arrives
StartRestore(u, fileId) ==
  /\ Len(reqs) < MaxReqs
  /\ reqs' = Append(reqs, Request("restore", u, fileId, NULL, NoUpload, "find"))
  /\ UNCHANGED <<nodes, nextId, blobs, nextBlob, stats, now, ticks>>

\* const file = await File.findOne({ _id: fileId, userId, inTrash: true })
RestoreFind(r) ==
  /\ At(r, "restore", "find")
  /\ LET q == reqs[r]
     IN IF ~(Owned(nodes, q.u, q.fileId) /\ nodes[q.fileId].inTrash = TRUE)
        THEN Respond(r, 404, "NotFound")
        ELSE reqs' = [reqs EXCEPT ![r].pc = "save"]
  /\ UNCHANGED <<nodes, nextId, blobs, nextBlob, stats, now, ticks>>

\* file.inTrash = false; file.deletedAt = null; file.permanentDeleteAt = null;
\* await file.save() writes these paths; it throws when the document is gone
RestoreSave(r) ==
  /\ At(r, "restore", "save")
  /\ LET q == reqs[r]
     IN IF q.fileId \notin DOMAIN nodes
        THEN Respond(r, 500, "ServerError") /\ UNCHANGED nodes
        ELSE /\ nodes' = [nodes EXCEPT ![q.fileId] =
                            [RestoredDoc(@) EXCEPT !.updatedAt = now]]
             /\ reqs' = [reqs EXCEPT ![r].pc = "updateStats"]
  /\ UNCHANGED <<nextId, blobs, nextBlob, stats, now, ticks>>

\* DELETE /:fileId arrives
StartDelete(u, fileId) ==
  /\ Len(reqs) < MaxReqs
  /\ reqs' = Append(reqs, Request("permanent_delete", u, fileId, NULL, NoUpload, "find"))
  /\ UNCHANGED <<nodes, nextId, blobs, nextBlob, stats, now, ticks>>

\* const file = await File.findOne({ _id: fileId, userId });
\* if (fs.existsSync(file.path)) fs.unlinkSync(file.path)
DeleteFind(r) ==
  /\ At(r, "permanent_delete", "find")
  /\ LET q == reqs[r]
     IN IF ~Owned(nodes, q.u, q.fileId)
        THEN Respond(r, 404, "NotFound") /\ UNCHANGED blobs
        ELSE /\ blobs' = blobs \ {nodes[q.fileId].path}
             /\ reqs' = [reqs EXCEPT ![r].pc = "remove"]
  /\ UNCHANGED <<nodes, nextId, nextBlob, stats, now, ticks>>

\* await File.findByIdAndDelete(fileId)
DeleteRemove(r) ==
  /\ At(r, "permanent_delete", "remove")
  /\ nodes' = Drop(nodes, {reqs[r].fileId})
  /\ reqs' = [reqs EXCEPT ![r].pc = "updateStats"]
  /\ UNCHANGED <<nextId, blobs, nextBlob, stats, now, ticks>>

\* DELETE /trash/empty arrives
StartEmptyTrash(u) ==
  /\ Len(reqs) < MaxReqs
  /\ reqs' = Append(reqs, Request("empty_trash", u, NULL, NULL, NoUpload, "find"))
  /\ UNCHANGED <<nodes, nextId, blobs, nextBlob, stats, now, ticks>>

\* const trashFiles = await File.find({ userId, inTrash: true });
\* for (const file of trashFiles) unlink file.path
EmptyTrashFind(r) ==
  /\ At(r, "empty_trash", "find")
  /\ LET trashFiles == {i \in DOMAIN nodes :
                          nodes[i].userId = reqs[r].u /\ nodes[i].inTrash = TRUE}
     IN blobs' = blobs \ {nodes[i].path : i \in trashFiles}
  /\ reqs' = [reqs EXCEPT ![r].pc = "remove"]
  /\ UNCHANGED <<nodes, nextId, nextBlob, stats, now, ticks>>

\* await File.deleteMany({ userId, inTrash: true })
EmptyTrashRemove(r) ==
  /\ At(r, "empty_trash", "remove")
  /\ nodes' = Drop(nodes, {i \in DOMAIN nodes :
                             nodes[i].userId = reqs[r].u /\ nodes[i].inTrash = TRUE})
  /\ reqs' = [reqs EXCEPT ![r].pc = "updateStats"]
  /\ UNCHANGED <<nextId, blobs, nextBlob, stats, now, ticks>>

\* await StorageStats.updateUserStats(userId); await Activity.logActivity(...);
\* res.json, or the catch block's 500 when logActivity throws
UpdateStatsAndLog(r) ==
  /\ reqs[r].pc = "updateStats"
  /\ stats' = updateUserStats(stats, nodes, reqs[r].u, now)
  /\ IF logActivityThrows(reqs[r].op, FALSE)
     THEN Respond(r, 500, "ServerError")
     ELSE Respond(r, 200, "none")
  /\ UNCHANGED <<nodes, nextId, blobs, nextBlob, now, ticks>>

(***************************************************************************)
(* SpecPurge: the owner uploads files and puts them in trash; then restore *)
(* requests and purges (permanent delete of a trashed document, empty      *)
(* trash, the TTL monitor) are served concurrently.                        *)
(***************************************************************************)
NextPurge ==
  \/ \E f \in UploadFiles :
       reqs = << >> /\ nextId <= MaxLifeNodes /\ Upload(Owner, f, NULL, FALSE, FALSE)
  \/ \E id \in RequestIds : reqs = << >> /\ Trash(Owner, id, FALSE, FALSE)
  \/ \E id \in RequestIds : StartRestore(Owner, id)
  \/ \E r \in DOMAIN reqs : RestoreFind(r)
  \/ \E r \in DOMAIN reqs : RestoreSave(r)
  \/ \E id \in DOMAIN nodes : nodes[id].inTrash /\ StartDelete(Owner, id)
  \/ \E r \in DOMAIN reqs : DeleteFind(r)
  \/ \E r \in DOMAIN reqs : DeleteRemove(r)
  \/ StartEmptyTrash(Owner)
  \/ \E r \in DOMAIN reqs : EmptyTrashFind(r)
  \/ \E r \in DOMAIN reqs : EmptyTrashRemove(r)
  \/ \E r \in DOMAIN reqs : UpdateStatsAndLog(r)
  \/ \E id \in RequestIds : TtlSweep(id)
  \/ Tick

SpecPurge == Init /\ [][NextPurge]_vars

(***************************************************************************)
(* C11.  A purge that races with a restore of the same document undoes     *)
(* nothing of a restore that has taken effect: once a restore request has  *)
(* saved the document, the document exists, is out of trash, and its blob  *)
(* is in the uploads directory.                                            *)
(***************************************************************************)
C11_RestoredSurvivesPurge ==
  \A r \in DOMAIN reqs :
    (/\ reqs[r].op = "restore"
     /\ reqs[r].pc = "updateStats" \/ (reqs[r].pc = "done" /\ reqs[r].status = 200))
    => LET id == reqs[r].fileId
       IN /\ id \in DOMAIN nodes
          /\ ~nodes[id].inTrash
          /\ nodes[id].path \in blobs

(***************************************************************************)
(* C21.  A failure of updateUserStats does not reach the caller: when a    *)
(* handler that recomputes the statistics (upload, trash, restore,         *)
(* permanent delete, empty trash) has changed the File collection and the  *)
(* recomputation throws, the answer is still 200 or 201.                   *)
(***************************************************************************)
C21_StatsFailureTolerated ==
  \A u \in Users :
    /\ \A f \in UploadFiles, p \in ParentInputs :
         CommittedOk(UploadH(DB, now, u, f, p, TRUE, FALSE))
    /\ \A id \in RequestIds :
         /\ CommittedOk(TrashH(DB, now, u, id, TRUE, FALSE))
         /\ CommittedOk(RestoreH(DB, now, u, id, TRUE, FALSE))
         /\ CommittedOk(DeleteH(DB, now, u, id, TRUE, FALSE))
    /\ CommittedOk(EmptyTrashH(DB, now, u, TRUE, FALSE))

(***************************************************************************)
(* C22.  After any sequence of requests served one after the other, the    *)
(* StorageStats record of every user equals the recomputation over the     *)
(* user's documents that are not in trash; a user without a record has no  *)
(* such document.                                                          *)
(***************************************************************************)
C22_StatsCurrent ==
  \A u \in Users :
    IF u \in DOMAIN stats
    THEN MatchesRecomputation(stats[u], u)
    ELSE LiveOf(u) = {}

(***************************************************************************)
(* C23.  Empty trash removes the caller's documents that are in trash,     *)
(* whatever their permanentDeleteAt, and no other document: the documents  *)
(* that remain are those of before, unchanged; the caller's StorageStats   *)
(* record is recomputed over them and no other user's record changes.      *)
(***************************************************************************)
C23_EmptyTrashFrame ==
  \A u \in Users, sd \in BOOLEAN :
    LET r == EmptyTrashH(DB, now, u, FALSE, sd)
        gone == {i \in DOMAIN nodes : nodes[i].userId = u /\ nodes[i].inTrash}
    IN /\ DOMAIN r.db.nodes = DOMAIN nodes \ gone
       /\ \A i \in DOMAIN r.db.nodes : r.db.nodes[i] = nodes[i]
       /\ DOMAIN r.db.stats = DOMAIN stats \cup {u}
       /\ \A v \in DOMAIN stats \ {u} : r.db.stats[v] = stats[v]
       /\ MatchesRecomputation(r.db.stats[u], u)

\* a user with a document in trash, not yet due, and one out of trash, and
\* a document of the other user in trash: empty trash leaves two documents
C23_Witness ==
  \E u \in Users :
    /\ \E i \in DOMAIN nodes :
         nodes[i].userId = u /\ nodes[i].inTrash /\ nodes[i].permanentDeleteAt > now
    /\ \E i \in DOMAIN nodes : nodes[i].userId = u /\ ~nodes[i].inTrash
    /\ \E i \in DOMAIN nodes : nodes[i].userId # u /\ nodes[i].inTrash
    /\ Cardinality(DOMAIN EmptyTrashH(DB, now, u, FALSE, FALSE).db.nodes) = 2

(***************************************************************************)
(* C24.  Trashing or restoring a document, a folder in particular, changes *)
(* that document alone: every other document, its descendants included,    *)
(* keeps all its fields, inTrash, deletedAt and permanentDeleteAt among    *)
(* them.                                                                   *)
(***************************************************************************)
OthersKept(r, id) ==
  /\ DOMAIN r.db.nodes = DOMAIN nodes
  /\ \A j \in DOMAIN nodes \ {id} : r.db.nodes[j] = nodes[j]

C24_TrashFrame ==
  \A id \in DOMAIN nodes, sd \in BOOLEAN :
    LET u == nodes[id].userId
    IN /\ OthersKept(TrashH(DB, now, u, id, FALSE, sd), id)
       /\ OthersKept(RestoreH(DB, now, u, id, FALSE, sd), id)

\* a folder in trash whose child folder and grandchild are not
C24_Witness ==
  \E f, c, g \in DOMAIN nodes :
    /\ nodes[f].isFolder /\ nodes[f].inTrash
    /\ nodes[c].parentFolder = f /\ ~nodes[c].inTrash
    /\ nodes[g].parentFolder = c /\ ~nodes[g].inTrash
    /\ f # c /\ c # g /\ f # g

(***************************************************************************)
(* C25.  A copy of an owned document into a target that resolves creates   *)
(* exactly one document, under a fresh id, owned by the caller, with       *)
(* parentFolder the target, the name of the original followed by           *)
(* " (Copy)", the original's type, size and path, out of trash and shared  *)
(* with nobody; every document of before, the original included, is        *)
(* unchanged, so a folder's copy has none of its descendants.              *)
(***************************************************************************)
C25_CopyShallow ==
  \A u \in Users, id \in DOMAIN nodes, tgt \in ParentInputs, sd \in BOOLEAN :
    (Owned(nodes, u, id) /\ (tgt = NULL \/ TargetFolder(nodes, u, tgt))) =>
      LET r == CopyH(DB, now, u, id, tgt, sd)
          n == nodes[id]
      IN /\ nextId \notin DOMAIN nodes
         /\ DOMAIN r.db.nodes = DOMAIN nodes \cup {nextId}
         /\ \A i \in DOMAIN nodes : r.db.nodes[i] = nodes[i]
         /\ LET c == r.db.nodes[nextId]
            IN /\ c.userId = u
               /\ c.parentFolder = tgt
               /\ c.name = n.name \o CopySuffix
               /\ c.type = n.type /\ c.size = n.size /\ c.path = n.path
               /\ c.isFolder = n.isFolder
               /\ c.inTrash = FALSE
               /\ c.sharedWith = << >>

\* the copy of a folder that has a child: the copy has none
C25_Witness ==
  \E n, c \in DOMAIN nodes :
    /\ n # c
    /\ nodes[n].isFolder
    /\ nodes[c].name = nodes[n].name \o CopySuffix
    /\ \E k \in DOMAIN nodes : nodes[k].parentFolder = n
    /\ ~\E k \in DOMAIN nodes : nodes[k].parentFolder = c

(***************************************************************************)
(* C26.  Ownership gate: rename, move, copy, share, trash, restore and     *)
(* permanent delete of an id that is no document of the caller's (no       *)
(* document at all, or another user's, shared with the caller or not)      *)
(* never succeed and leave documents, blobs and StorageStats as they were; *)
(* with a name that is not blank and a grantee that is another existing    *)
(* user, the answer is 404 NotFound.                                       *)
(***************************************************************************)
Refused(r) == r.status = 404 /\ r.error = "NotFound" /\ Unchanged(r)

C26_OwnershipGate ==
  \A u \in Users, id \in RequestIds, st \in BOOLEAN, sd \in BOOLEAN :
    (id \notin DOMAIN nodes \/ nodes[id].userId # u) =>
      /\ \A nm \in NameInputs :
           LET r == RenameH(DB, now, u, id, nm, sd)
           IN /\ Unchanged(r) /\ r.status \notin {200, 201}
              /\ Trim(nm) # << >> => Refused(r)
      /\ \A p \in ParentInputs :
           /\ Refused(MoveH(DB, now, u, id, p, sd))
           /\ Refused(CopyH(DB, now, u, id, p, sd))
      /\ \A g \in Users \cup {NoUser}, perm \in Permissions :
           LET r == ShareH(DB, now, u, id, g, perm, sd)
           IN /\ Unchanged(r) /\ r.status \notin {200, 201}
              /\ g \in Users \ {u} => Refused(r)
      /\ Refused(TrashH(DB, now, u, id, st, sd))
      /\ Refused(RestoreH(DB, now, u, id, st, sd))
      /\ Refused(DeleteH(DB, now, u, id, st, sd))

\* a document shared for editing, which the user it is shared with asks to
\* put in trash
C26_Witness ==
  \E id \in DOMAIN nodes, g \in Users :
    /\ g # nodes[id].userId
    /\ getUserPermissions(nodes[id], g) = "edit"
    /\ TrashH(DB, now, g, id, FALSE, FALSE).error = "NotFound"

(***************************************************************************)
(* C27.  A move of an owned document, file or folder, into itself is       *)
(* answered 400 InvalidMove and changes nothing.                           *)
(***************************************************************************)
C27_SelfMoveRejected ==
  \A u \in Users, id \in DOMAIN nodes, sd \in BOOLEAN :
    Owned(nodes, u, id) =>
      LET r == MoveH(DB, now, u, id, id, sd)
      IN r.status = 400 /\ r.error = "InvalidMove" /\ Unchanged(r)

(***************************************************************************)
(* C28.  The shared listing of a user holds exactly the documents that are *)
(* not in trash and whose sharedWith list has an entry for the user; none  *)
(* of them is the user's own.                                              *)
(***************************************************************************)
C28_SharedListing ==
  \A u \in Users :
    /\ \A i \in RequestIds :
         i \in SharedFiles(nodes, u) <=>
           /\ i \in DOMAIN nodes
           /\ \E k \in DOMAIN nodes[i].sharedWith : nodes[i].sharedWith[k].user = u
           /\ nodes[i].inTrash = FALSE
    /\ \A i \in SharedFiles(nodes, u) : nodes[i].userId # u

\* a user with one shared document listed and another, in trash, left out
C28_Witness ==
  \E u \in Users, i, j \in DOMAIN nodes :
    /\ SharedFiles(nodes, u) = {i}
    /\ isSharedWith(nodes[j], u) /\ nodes[j].inTrash

(***************************************************************************)
(* C30.  In every state a folder has size 0, type "folder" and path null;  *)
(* and whatever type, size and path a folder document is built with, that  *)
(* is what save makes of it.                                               *)
(***************************************************************************)
Weightless(doc) == doc.size = 0 /\ doc.type = "folder" /\ doc.path = NULL

C30_FolderWeightless ==
  /\ \A id \in DOMAIN nodes : nodes[id].isFolder => Weightless(nodes[id])
  /\ \A ty \in Types, sz \in {0, 1000}, path \in {NULL, 1} :
       Weightless(Saved(NewFile(<<"a">>, ty, sz, path, Owner, NULL, TRUE), now))

\* the copy of a folder, holding a file that has a size
C30_Witness ==
  \E n, c, k \in DOMAIN nodes :
    /\ nodes[n].isFolder /\ nodes[c].isFolder
    /\ nodes[c].name = nodes[n].name \o CopySuffix
    /\ nodes[k].parentFolder = c /\ nodes[k].size > 0

(***************************************************************************)
(* SpecSweep: the owner creates, trashes and restores documents while the  *)
(* clock advances and the TTL monitor runs; nothing else removes a         *)
(* document.                                                               *)
(***************************************************************************)
NextSweep ==
  \/ CreateFolder(Owner, <<"a">>, NULL, FALSE)
  \/ \E f \in UploadFiles : Upload(Owner, f, NULL, FALSE, FALSE)
  \/ \E id \in RequestIds : Trash(Owner, id, FALSE, FALSE)
  \/ \E id \in RequestIds : Restore(Owner, id, FALSE, FALSE)
  \/ \E id \in RequestIds : TtlSweep(id)
  \/ Tick

SpecSweep == Init /\ [][NextSweep]_vars

(***************************************************************************)
(* C29.  The TTL monitor removes a document only if it is in trash and its *)
(* permanentDeleteAt, which is deletedAt plus 30 days, is not after now: a *)
(* document never trashed or restored is not removed, and a trashed one is *)
(* not removed before its retention has elapsed.                           *)
(***************************************************************************)
C29_SweepOnlyDue ==
  [][\A id \in DOMAIN nodes :
       id \notin DOMAIN nodes' =>
         /\ nodes[id].inTrash
         /\ IsDate(nodes[id].permanentDeleteAt)
         /\ nodes[id].permanentDeleteAt <= now
         /\ nodes[id].deletedAt + RetentionDays <= now]_vars

\* one document has been removed, a restored one and one trashed after the
\* clock advanced remain
C29_Witness ==
  /\ \E id \in 1 .. (nextId - 1) : id \notin DOMAIN nodes
  /\ \E j \in DOMAIN nodes : nodes[j].deletedAt = NullDate
  /\ \E k \in DOMAIN nodes : nodes[k].inTrash /\ nodes[k].permanentDeleteAt > now

(***************************************************************************)
(* POST /folders served in steps, for requests that run concurrently: the  *)
(* name check is synchronous, File.findOne and newFolder.save() are two    *)
(* awaits.  The request's name travels in file.originalname.               *)
(***************************************************************************)
\* POST /folders arrives; if (!name || name.trim() === '') return 400
StartCreateFolder(u, name, parentFolder) ==
  /\ Len(reqs) < MaxReqs
  /\ LET q == Request("createFolder", u, NULL, parentFolder,
                      [NoUpload EXCEPT !.originalname = name], "findExisting")
     IN reqs' = Append(reqs,
                  IF name = << >> \/ Trim(name) = << >>
                  THEN [q EXCEPT !.pc = "done", !.status = 400, !.error = "NameRequired"]
                  ELSE q)
  /\ UNCHANGED <<nodes, nextId, blobs, nextBlob, stats, now, ticks>>

\* const existingFolder = await File.findOne({userId, name: name.trim(),
\* isFolder: true, parentFolder, inTrash: false})
CreateFolderFind(r) ==
  /\ At(r, "createFolder", "findExisting")
  /\ LET q == reqs[r]
     IN IF \E i \in DOMAIN nodes :
             /\ nodes[i].userId = q.u
             /\ nodes[i].name = Trim(q.file.originalname)
             /\ nodes[i].isFolder = TRUE
             /\ nodes[i].parentFolder = q.target
             /\ nodes[i].inTrash = FALSE
        THEN Respond(r, 400, "DuplicateName")
        ELSE reqs' = [reqs EXCEPT ![r].pc = "save"]
  /\ UNCHANGED <<nodes, nextId, blobs, nextBlob, stats, now, ticks>>

\* await newFolder.save(); logActivity('create_folder'); res.status(201)
CreateFolderSave(r) ==
  /\ At(r, "createFolder", "save")
  /\ nextId <= MaxNodes
  /\ LET q == reqs[r]
         newFolder == NewFile(Trim(q.file.originalname), "folder", 0, NULL,
                              q.u, q.target, TRUE)
     IN /\ nodes' = Put(nodes, nextId, Saved(newFolder, now))
        /\ nextId' = nextId + 1
        /\ reqs' = [reqs EXCEPT ![r].fileId = nextId, ![r].pc = "done",
                                ![r].status = 201, ![r].error = "none"]
  /\ UNCHANGED <<blobs, nextBlob, stats, now, ticks>>

(***************************************************************************)
(* SpecFolders: the owner's folder creations served concurrently.  Nothing *)
(* is trashed, restored, renamed or moved, so that two folders of one name *)
(* under one parent can only come from two creations.                      *)
(***************************************************************************)
NextFolders ==
  \/ \E name \in NameInputs, p \in ParentInputs : StartCreateFolder(Owner, name, p)
  \/ \E r \in DOMAIN reqs : CreateFolderFind(r)
  \/ \E r \in DOMAIN reqs : CreateFolderSave(r)

SpecFolders == Init /\ [][NextFolders]_vars

(***************************************************************************)
(* C31.  Two folder creations of one user with the same name and the same  *)
(* parent that run concurrently are not both answered 201, and no user has *)
(* two folders out of trash with the same name under the same parent.      *)
(***************************************************************************)
C31_ConcurrentCreateUnique ==
  /\ \A i, j \in DOMAIN reqs :
       (/\ i # j
        /\ reqs[i].op = "createFolder" /\ reqs[j].op = "createFolder"
        /\ reqs[i].u = reqs[j].u
        /\ Trim(reqs[i].file.originalname) = Trim(reqs[j].file.originalname)
        /\ reqs[i].target = reqs[j].target)
       => ~(reqs[i].status = 201 /\ reqs[j].status = 201)
  /\ \A a, b \in DOMAIN nodes :
       (/\ a # b
        /\ nodes[a].isFolder /\ nodes[b].isFolder
        /\ ~nodes[a].inTrash /\ ~nodes[b].inTrash
        /\ nodes[a].userId = nodes[b].userId
        /\ nodes[a].parentFolder = nodes[b].parentFolder)
       => nodes[a].name # nodes[b].name

(***************************************************************************)
(* SpecRetention: the owner uploads, trashes, restores and deletes while   *)
(* the clock advances and the TTL monitor runs.  The monitor is a          *)
(* background thread of the database that wakes up every minute, and time  *)
(* passes: both are weakly fair.  The clock of the model stops after       *)
(* MaxTicks steps, so a document is put in trash only while the clock can  *)
(* still reach its purge date.                                             *)
(***************************************************************************)
NextRetention ==
  \/ \E f \in UploadFiles : Upload(Owner, f, NULL, FALSE, FALSE)
  \/ \E id \in RequestIds : ticks < MaxTicks /\ Trash(Owner, id, FALSE, FALSE)
  \/ \E id \in RequestIds : Restore(Owner, id, FALSE, FALSE)
  \/ \E id \in RequestIds : Delete(Owner, id, FALSE, FALSE)
  \/ \E id \in 1 .. MaxNodes : TtlSweep(id)
  \/ Tick

SpecRetention ==
  /\ Init
  /\ [][NextRetention]_vars
  /\ WF_vars(Tick)
  /\ \A id \in 1 .. MaxNodes : WF_vars(TtlSweep(id))

\* the dates at which a document can have been put in trash
TrashTimes == {k * RetentionDays : k \in 0 .. MaxTicks}

(***************************************************************************)
(* C32.  A document put in trash at some date is eventually removed, by    *)
(* the TTL monitor unless the owner deletes it first, or else it has been  *)
(* restored or put in trash again at a later date.                         *)
(***************************************************************************)
C32_TrashedEventuallyPurged ==
  \A id \in 1 .. MaxNodes, d \in TrashTimes :
    (id \in DOMAIN nodes /\ nodes[id].inTrash /\ nodes[id].deletedAt = d)
      ~> (\/ id \notin DOMAIN nodes
          \/ ~nodes[id].inTrash
          \/ nodes[id].deletedAt # d)

\* the monitor has removed a document after its retention: the document is
\* gone while its blob, which only the owner's delete unlinks, is still there
C32_Witness ==
  /\ now >= RetentionDays
  /\ \E b \in blobs : \A i \in DOMAIN nodes : nodes[i].path # b

(***************************************************************************)
(* checkIfSubfolder run on its own, one File.findById per step, over any   *)
(* parent graph of the owner's folders: parentFolder is null, a folder     *)
(* (itself included: moves can close a cycle) or a document that is gone.  *)
(* The call is a record of its arguments, its local currentFolderId, the   *)
(* number of lookups made and, once it has returned, the result.           *)
(***************************************************************************)
WalkCall(parentFolderId, potentialSubfolderId) ==
  [op |-> "checkIfSubfolder",
   pc |-> IF parentFolderId = NULL THEN "done" ELSE "loop",
   parentFolderId |-> parentFolderId, potentialSubfolderId |-> potentialSubfolderId,
   currentFolderId |-> parentFolderId, lookups |-> 0, result |-> FALSE]

\* (mutant) a round compares the parent of the folder it has loaded
WalkRoundFromParent(ns, q) ==
  IF q.currentFolderId \notin DOMAIN ns
  THEN [q EXCEPT !.lookups = @ + 1, !.pc = "done", !.result = FALSE]
  ELSE IF ns[q.currentFolderId].parentFolder = q.potentialSubfolderId
          /\ q.potentialSubfolderId \in DOMAIN ns
  THEN [q EXCEPT !.lookups = @ + 1, !.pc = "done", !.result = TRUE]
  ELSE [q EXCEPT !.lookups = @ + 1,
                 !.currentFolderId = ns[q.currentFolderId].parentFolder,
                 !.pc = IF ns[q.currentFolderId].parentFolder = NULL
                        THEN "done" ELSE "loop"]

\* one round of the while loop: const folder = await File.findById(...);
\* if (!folder) break; if (folder._id equals potentialSubfolderId) return true;
\* currentFolderId = folder.parentFolder; and the loop test that follows
WalkRound(ns, q) ==
  IF q.currentFolderId \notin DOMAIN ns
  THEN [q EXCEPT !.lookups = @ + 1, !.pc = "done", !.result = FALSE]
  ELSE IF q.currentFolderId = q.potentialSubfolderId
  THEN [q EXCEPT !.lookups = @ + 1, !.pc = "done", !.result = TRUE]
  ELSE [q EXCEPT !.lookups = @ + 1,
                 !.currentFolderId = ns[q.currentFolderId].parentFolder,
                 !.pc = IF ns[q.currentFolderId].parentFolder = NULL
                        THEN "done" ELSE "loop"]

\* a walk that has made more lookups than there are documents is in a cycle
\* and never returns: the model stops following it
WalkLookup(r) ==
  /\ At(r, "checkIfSubfolder", "loop")
  /\ reqs[r].lookups <= Cardinality(DOMAIN nodes)
  /\ reqs' = [reqs EXCEPT ![r] = WalkRound(nodes, reqs[r])]
  /\ UNCHANGED <<nodes, nextId, blobs, nextBlob, stats, now, ticks>>

InitWalk ==
  /\ \E parentOf \in [1 .. MaxNodes -> (1 .. MaxNodes) \cup {NULL, MissingId}] :
       nodes = [i \in 1 .. MaxNodes |->
                  Saved(NewFile(<<"a">>, "folder", 0, NULL, Owner, parentOf[i], TRUE), 0)]
  /\ nextId = MaxNodes + 1
  /\ blobs = {}
  /\ nextBlob = 1
  /\ stats = [u \in {} |-> 0]
  /\ now = 0
  /\ ticks = 0
  /\ \E parentFolderId \in (1 .. MaxNodes) \cup {NULL, MissingId},
        potentialSubfolderId \in (1 .. MaxNodes) \cup {MissingId} :
       reqs = <<WalkCall(parentFolderId, potentialSubfolderId)>>

NextWalk == \E r \in DOMAIN reqs : WalkLookup(r)

SpecWalk == InitWalk /\ [][NextWalk]_vars

\* the chain of parentFolder links from id ends at the root: every link
\* resolves and none leads back
Rooted(ns, id) ==
  /\ id \in DOMAIN ns
  /\ \E x \in {id} \cup Ancestors(ns, id) : ns[x].parentFolder = NULL

Depth(ns, id) == Cardinality(Ancestors(ns, id))

(***************************************************************************)
(* C33.  checkIfSubfolder(start, candidate) returns true exactly when      *)
(* candidate is the folder start or a folder reached from start by         *)
(* following parentFolder, and false when the walk arrives at the root or  *)
(* at a document that does not exist; where the chain from start ends at   *)
(* the root it returns after at most depth(start) + 1 lookups.  The walk   *)
(* in steps and the walk the move handler calls give the same answer, and  *)
(* a walk that returns is never cut short by the model's bound on lookups. *)
(***************************************************************************)
C33_AncestryWalk ==
  \A r \in DOMAIN reqs :
    reqs[r].op = "checkIfSubfolder" =>
      LET q == reqs[r]
          start == q.parentFolderId
          candidate == q.potentialSubfolderId
          reached == start \in DOMAIN nodes
                       /\ (candidate = start \/ candidate \in Ancestors(nodes, start))
      IN /\ q.pc = "done" =>
              /\ q.result = reached
              /\ checkIfSubfolder(nodes, start, candidate)
                   = (IF q.result THEN "true" ELSE "false")
         /\ (start # NULL /\ Rooted(nodes, start)) =>
              /\ q.lookups <= Depth(nodes, start) + 1
              /\ q.lookups = Depth(nodes, start) + 1 => q.pc = "done"
         /\ (start # NULL /\ checkIfSubfolder(nodes, start, candidate) # "diverges") =>
              (q.pc = "loop" => q.lookups <= Cardinality(DOMAIN nodes))

\* a walk from a folder two levels below the root has returned false after
\* three lookups
C33_Witness ==
  \E r \in DOMAIN reqs :
    /\ reqs[r].op = "checkIfSubfolder" /\ reqs[r].pc = "done"
    /\ Rooted(nodes, reqs[r].parentFolderId)
    /\ Depth(nodes, reqs[r].parentFolderId) = 2
    /\ reqs[r].lookups = 3
    /\ ~reqs[r].result

(***************************************************************************)
(* C34.  After any sequence of upload, copy, trash, restore, permanent     *)
(* delete and empty-trash requests, the files of a user that are not in    *)
(* trash hold at most QuotaLimit bytes.                                    *)
(***************************************************************************)
C34_WithinQuota ==
  \A u \in Users : SizeSum(LiveFilesOf(u)) <= QuotaLimit

(***************************************************************************)
(* C35.  The path of every file document names a blob that is in the       *)
(* uploads directory: no purge has unlinked a blob that a document still   *)
(* names, and an upload that is answered with an error leaves no document  *)
(* whose blob the handler has unlinked.                                    *)
(***************************************************************************)
BlobsLive(db) ==
  \A i \in DOMAIN db.nodes : ~db.nodes[i].isFolder => db.nodes[i].path \in db.blobs

C35_BlobsLive ==
  /\ BlobsLive(DB)
  /\ \A u \in Users, f \in UploadFiles, p \in ParentInputs, statsDown, sinkDown \in BOOLEAN :
       LET r == UploadH(DB, now, u, f, p, statsDown, sinkDown)
       IN (BlobsLive(DB) /\ r.status # 201) => BlobsLive(r.db)

(***************************************************************************)
(* C36.  A request of user u leaves every document of another user v and   *)
(* v's StorageStats record as they were, creates no document of v, and     *)
(* puts no document of u under a document of v.                            *)
(***************************************************************************)
FrameOf(r, u) ==
  \A v \in Users \ {u} :
    /\ \A i \in DOMAIN nodes :
         nodes[i].userId = v => i \in DOMAIN r.db.nodes /\ r.db.nodes[i] = nodes[i]
    /\ \A i \in DOMAIN r.db.nodes :
         r.db.nodes[i].userId = v => i \in DOMAIN nodes
    /\ (v \in DOMAIN r.db.stats) = (v \in DOMAIN stats)
    /\ v \in DOMAIN stats => r.db.stats[v] = stats[v]
    /\ \A i \in DOMAIN r.db.nodes :
         LET p == r.db.nodes[i].parentFolder
         IN (/\ r.db.nodes[i].userId = u
             /\ p \in DOMAIN r.db.nodes
             /\ r.db.nodes[p].userId = v)
            => (i \in DOMAIN nodes /\ nodes[i].parentFolder = p)

FrameOfOthers ==
  \A u \in Users, sd \in BOOLEAN :
    /\ \A f \in UploadFiles, p \in ParentInputs :
         FrameOf(UploadH(DB, now, u, f, p, sd, FALSE), u)
    /\ \A fs \in Batches, p \in ParentInputs :
         FrameOf(UploadMultipleH(DB, now, u, fs, p, sd, 0), u)
    /\ \A id \in RequestIds, name \in NameInputs :
         FrameOf(RenameH(DB, now, u, id, name, sd), u)
    /\ \A id \in RequestIds, p \in ParentInputs :
         /\ FrameOf(MoveH(DB, now, u, id, p, sd), u)
         /\ FrameOf(CopyH(DB, now, u, id, p, sd), u)
    /\ \A id \in RequestIds, g \in Users \cup {NoUser}, perm \in Permissions :
         FrameOf(ShareH(DB, now, u, id, g, perm, sd), u)
    /\ \A id \in RequestIds :
         /\ FrameOf(TrashH(DB, now, u, id, sd, FALSE), u)
         /\ FrameOf(RestoreH(DB, now, u, id, sd, FALSE), u)
         /\ FrameOf(DeleteH(DB, now, u, id, sd, FALSE), u)
    /\ FrameOf(EmptyTrashH(DB, now, u, sd, FALSE), u)
    /\ FrameOf(FilesOverviewH(DB, now, u, sd), u)
    /\ FrameOf(StorageOverviewH(DB, now, u, sd), u)

C36_CrossUserFrame ==
  /\ \A u \in Users, sd \in BOOLEAN, name \in NameInputs, p \in ParentInputs :
       FrameOf(CreateFolderH(DB, now, u, name, p, sd), u)
  /\ FrameOfOthers

(***************************************************************************)
(* POST /:fileId/share served in steps, for requests that run              *)
(* concurrently.  file.sharedWith.push(...) followed by file.save() is     *)
(* sent to the store as a $push of the new entry onto the stored array,    *)
(* with no condition on the document's version.                            *)
(***************************************************************************)
ShareCall(u, fileId, targetUser, permission) ==
  [op |-> "share", pc |-> "findUser", u |-> u, fileId |-> fileId,
   targetUser |-> targetUser, permission |-> permission,
   status |-> 0, error |-> "none"]

\* POST /:fileId/share arrives
StartShare(u, fileId, targetUser, permission) ==
  /\ Len(reqs) < MaxReqs
  /\ reqs' = Append(reqs, ShareCall(u, fileId, targetUser, permission))
  /\ UNCHANGED <<nodes, nextId, blobs, nextBlob, stats, now, ticks>>

\* const targetUser = await User.findOne({ email }); and the self check
ShareFindUser(r) ==
  /\ At(r, "share", "findUser")
  /\ IF reqs[r].targetUser = NoUser
     THEN Respond(r, 404, "UserNotFound")
     ELSE IF sharingWithSelf(reqs[r].targetUser, reqs[r].u)
     THEN Respond(r, 400, "SelfShareForbidden")
     ELSE reqs' = [reqs EXCEPT ![r].pc = "findFile"]
  /\ UNCHANGED <<nodes, nextId, blobs, nextBlob, stats, now, ticks>>

\* const file = await File.findOne({ _id: fileId, userId }); and the
\* alreadyShared test on the document loaded
ShareFindFile(r) ==
  /\ At(r, "share", "findFile")
  /\ LET q == reqs[r]
     IN IF ~Owned(nodes, q.u, q.fileId)
        THEN Respond(r, 404, "NotFound")
        ELSE IF alreadyShared(nodes[q.fileId], q.targetUser)
        THEN Respond(r, 400, "AlreadyShared")
        ELSE reqs' = [reqs EXCEPT ![r].pc = "save"]
  /\ UNCHANGED <<nodes, nextId, blobs, nextBlob, stats, now, ticks>>

\* file.sharedWith.push({...}); await file.save(); logActivity('share'); res.json
ShareSave(r) ==
  /\ At(r, "share", "save")
  /\ LET q == reqs[r]
     IN IF q.fileId \notin DOMAIN nodes
        THEN Respond(r, 500, "ServerError") /\ UNCHANGED nodes
        ELSE /\ nodes' = [nodes EXCEPT
                            ![q.fileId].sharedWith =
                               Append(@, [user |-> q.targetUser,
                                          permission |-> q.permission,
                                          sharedAt |-> now]),
                            ![q.fileId].updatedAt = now]
             /\ Respond(r, 200, "none")
  /\ UNCHANGED <<nextId, blobs, nextBlob, stats, now, ticks>>

(***************************************************************************)
(* SpecShare: the owner uploads files and then sends share requests that   *)
(* are served concurrently.  No grant is ever removed, so that a second    *)
(* grant to one user can only come from two requests that interleave.      *)
(***************************************************************************)
NextShare ==
  \/ \E f \in UploadFiles :
       reqs = << >> /\ nextId <= MaxLifeNodes /\ Upload(Owner, f, NULL, FALSE, FALSE)
  \/ \E id \in RequestIds, g \in Users \cup {NoUser}, perm \in Permissions :
       StartShare(Owner, id, g, perm)
  \/ \E r \in DOMAIN reqs : ShareFindUser(r)
  \/ \E r \in DOMAIN reqs : ShareFindFile(r)
  \/ \E r \in DOMAIN reqs : ShareSave(r)

SpecShare == Init /\ [][NextShare]_vars

(***************************************************************************)
(* C38.  Two share requests for the same document and the same user that   *)
(* run concurrently are not both answered 200, and no document has two     *)
(* sharedWith entries for one user.                                        *)
(***************************************************************************)
C38_ConcurrentGrantOnce ==
  /\ \A i, j \in DOMAIN reqs :
       (/\ i # j
        /\ reqs[i].op = "share" /\ reqs[j].op = "share"
        /\ reqs[i].u = reqs[j].u
        /\ reqs[i].fileId = reqs[j].fileId
        /\ reqs[i].targetUser = reqs[j].targetUser)
       => ~(reqs[i].status = 200 /\ reqs[j].status = 200)
  /\ \A id \in DOMAIN nodes :
       \A i, j \in DOMAIN nodes[id].sharedWith :
         i # j => nodes[id].sharedWith[i].user # nodes[id].sharedWith[j].user

(***************************************************************************)
(* SpecReconcile: the owner's uploads served concurrently, each ending     *)
(* with its own updateUserStats; nothing else changes the owner's          *)
(* documents.                                                              *)
(***************************************************************************)
NextReconcile ==
  \/ \E f \in UploadFiles, p \in ParentInputs : StartUpload(Owner, f, p)
  \/ \E r \in DOMAIN reqs : UploadCheckParent(r)
  \/ \E r \in DOMAIN reqs : UploadCheckQuota(r)
  \/ \E r \in DOMAIN reqs : UploadSave(r)
  \/ \E r \in DOMAIN reqs : UploadFileStats(r)
  \/ \E r \in DOMAIN reqs : UploadCounts(r)
  \/ \E r \in DOMAIN reqs : UploadWriteStats(r)

SpecReconcile == Init /\ [][NextReconcile]_vars

(***************************************************************************)
(* C37.  Once all the concurrent requests of a user have been answered,    *)
(* each after its own reconciliation, the user's StorageStats record       *)
(* equals the recomputation over the documents the user then has out of    *)
(* trash.                                                                  *)
(***************************************************************************)
C37_ReconciledAfterConcurrency ==
  \A u \in Users :
    (/\ \A r \in DOMAIN reqs : reqs[r].pc = "done"
     /\ \E r \in DOMAIN reqs : reqs[r].u = u /\ reqs[r].status = 201)
    => (u \in DOMAIN stats /\ MatchesRecomputation(stats[u], u))
=============================================================================
